---- MODULE Spec2Model ----
(***************************************************************************)
(* Model of scraper.py (streaming-calendar): scrape_streaming_month with    *)
(* its preview scan and calendar pass, the platform tagger, the date-header *)
(* parser, the slug generator, the month windows, and main's two            *)
(* deduplications, each followed by its rating loop.                        *)
(*                                                                          *)
(* Python strings are modelled as sequences of one-character strings, so    *)
(* that lower(), strip(), replace(), the regular expressions and string     *)
(* comparison are computed character by character, as the code does.        *)
(* The alphabet is printable ASCII; the only whitespace character is " ".   *)
(***************************************************************************)
EXTENDS Integers, Sequences, FiniteSets, TLC

VARIABLES
    pc,            \* position of the run in the modelled code
    response,      \* scrape_streaming_month: TRUE when the preview request succeeded and
                   \* response.text holds 'Synopsis:', FALSE when response is None
    lines,         \* scrape_streaming_month: the stripped non-blank lines of the preview page
    i,             \* scrape_streaming_month: loop index into lines (0-based, as in the code)
    current_date,  \* scrape_streaming_month: the current-date context (None when unset)
    releases,      \* scrape_streaming_month: the records emitted so far
    all_releases,  \* main: the candidates handed to the deduplication
    pos,           \* main: number of candidates the deduplication loop has consumed
    seen,          \* main: the dict seen, as its (key, value) items in insertion order
    unique,        \* main: list(seen.values()) after the sort
    tmdb_posters,  \* TMDB's search during the run: the poster_path of the first result, by
                   \* (title, year), for the searches that give one
    enrich_pos,    \* main: number of streaming releases the rating and poster loop has handled
    data_releases, \* main: data["releases"]
    text,          \* extract_platform, parse_date_header: the argument
    tagged,        \* extract_platform: its return value
    parse_result,  \* parse_date_header: its return value
    month,         \* scrape_calendar_page: the month name it is called with
    year,          \* scrape_calendar_page: the year it is called with
    movie_urls,    \* scrape_calendar_page: the movie links found on the calendar page
    movie_pos,     \* scrape_calendar_page: number of movie links processed
    movie_lines,   \* scrape_movie_page: the lines of the movie page
    movie_line_pos,      \* scrape_movie_page: number of lines processed
    movie_info,    \* scrape_movie_page: info and distributor
    calendar_releases,   \* scrape_calendar_page: its list releases
    theatrical_releases, \* main: the theatrical candidates
    theatrical_pos,      \* main: number of theatrical candidates consumed
    seen_theatrical,     \* main: the set seen_theatrical
    unique_theatrical,   \* main: the list unique_theatrical
    letterboxd,          \* letterboxd.com during the run: the page behind each URL that answers
    rating_pos,          \* main: number of theatrical releases the rating loop has handled
    data_theatrical,     \* main: data["theatrical"]
    slug_title,    \* title_to_letterboxd_slug: its argument
    slug,          \* title_to_letterboxd_slug: its return value
    now,           \* get_months_to_scrape: datetime.now(), as [year, month]
    months         \* get_months_to_scrape: its list months

\* the variables of scrape_calendar_page and scrape_movie_page
calendarVars == <<month, year, movie_urls, movie_pos, calendar_releases,
                  movie_lines, movie_line_pos, movie_info>>

\* the variables of the theatrical deduplication of main
theatricalVars == <<theatrical_releases, theatrical_pos, seen_theatrical, unique_theatrical,
                    letterboxd, rating_pos, data_theatrical>>

\* the variables of the pure functions
functionVars == <<parse_result, slug_title, slug, now, months>>

\* the variables of the rating and poster loop of main
enrichVars == <<tmdb_posters, enrich_pos, data_releases>>

extVars == <<calendarVars, theatricalVars, functionVars, enrichVars>>

vars == <<pc, response, lines, i, current_date, releases, all_releases, pos, seen, unique, text, tagged, extVars>>

\* scrape_calendar_page has not been called
CalendarIdle ==
    /\ month = <<>> /\ year = 0 /\ movie_urls = <<>> /\ movie_pos = 0
    /\ calendar_releases = <<>>
    /\ movie_lines = <<>> /\ movie_line_pos = 0
    /\ movie_info = [date |-> <<"None">>, platform |-> <<"None">>,
                     synopsis |-> <<"None">>, distributor |-> <<"None">>]

\* the theatrical deduplication has not started
TheatricalIdle ==
    /\ theatrical_releases = <<>> /\ theatrical_pos = 0
    /\ seen_theatrical = {} /\ unique_theatrical = <<>>
    /\ letterboxd = <<>> /\ rating_pos = 0 /\ data_theatrical = <<>>

\* no pure function has been called
FunctionsIdle ==
    /\ parse_result = <<>> /\ slug_title = <<>> /\ slug = <<>>
    /\ now = [year |-> 0, month |-> 0] /\ months = <<>>

\* the variables of the preview scan, the streaming deduplication and the tagger
scanVars == <<response, lines, i, current_date, releases>>
dedupVars == <<all_releases, pos, seen, unique, enrichVars>>

\* scrape_streaming_month has not started its scan
ScanIdle == response = FALSE /\ lines = <<>> /\ i = 0 /\ current_date = <<"None">> /\ releases = <<>>

\* the streaming deduplication has not started
EnrichIdle == tmdb_posters = <<>> /\ enrich_pos = 0 /\ data_releases = <<>>
DedupIdle == all_releases = <<>> /\ pos = 0 /\ seen = <<>> /\ unique = <<>> /\ EnrichIdle

ExtIdle == CalendarIdle /\ TheatricalIdle /\ FunctionsIdle /\ EnrichIdle

-----------------------------------------------------------------------------
(* Characters and Python's str methods                                      *)

\* Printable ASCII in code-point order: Ascii[k] is chr(31 + k). The grave accent
\* (chr(96)) cannot be written in a TLA+ string; "GRAVE" holds its place.
Ascii == <<" ","!","\"","#","$","%","&","'","(",")","*","+",",","-",".","/","0","1","2","3","4","5","6","7","8","9",":",";","<","=",">","?","@","A","B","C","D","E","F","G","H","I","J","K","L","M","N","O","P","Q","R","S","T","U","V","W","X","Y","Z","[","\\","]","^","_","GRAVE","a","b","c","d","e","f","g","h","i","j","k","l","m","n","o","p","q","r","s","t","u","v","w","x","y","z","{","|","}","~">>

AsciiSet == {Ascii[k] : k \in 1..Len(Ascii)}

\* ord(c)
Ord == [c \in AsciiSet |-> 31 + (CHOOSE k \in 1..Len(Ascii) : Ascii[k] = c)]

Chr(n) == Ascii[n - 31]

UpperSet == {c \in AsciiSet : Ord[c] >= Ord["A"] /\ Ord[c] <= Ord["Z"]}
LowerSet == {c \in AsciiSet : Ord[c] >= Ord["a"] /\ Ord[c] <= Ord["z"]}
DigitSet == {c \in AsciiSet : Ord[c] >= Ord["0"] /\ Ord[c] <= Ord["9"]}

LowerOf == [c \in AsciiSet |-> IF c \in UpperSet THEN Chr(Ord[c] + (Ord["a"] - Ord["A"])) ELSE c]
UpperOf == [c \in AsciiSet |-> IF c \in LowerSet THEN Chr(Ord[c] - (Ord["a"] - Ord["A"])) ELSE c]

SpaceSet == {" "}                                               \* \s
WordSet == UpperSet \cup LowerSet \cup DigitSet \cup {"_"}        \* \w
NotCloseParenSet == AsciiSet \ {")"}                            \* [^)]

IsSpace(c) == c \in SpaceSet
IsDigit(c) == c \in DigitSet
IsCased(c) == c \in UpperSet \cup LowerSet

None == <<"None">>

\* Python truthiness of None or a str
Truthy(x) == x # None /\ x # <<>>

SetMin(S) == CHOOSE x \in S : \A y \in S : x <= y
SetMax(S) == CHOOSE x \in S : \A y \in S : x >= y

\* str.lower()
Lower(s) == [k \in 1..Len(s) |-> LowerOf[s[k]]]

\* str.isupper(): at least one cased character and no lowercase one
IsUpperStr(s) ==
    /\ \E k \in 1..Len(s) : s[k] \in UpperSet
    /\ \A k \in 1..Len(s) : s[k] \notin LowerSet

\* str.title(): a cased character is lowercased after a cased one, uppercased otherwise
TitleCase(s) ==
    [k \in 1..Len(s) |->
        IF k > 1 /\ IsCased(s[k - 1]) THEN LowerOf[s[k]] ELSE UpperOf[s[k]]]

\* str.strip()
Strip(s) ==
    LET solid == {k \in 1..Len(s) : ~IsSpace(s[k])}
    IN  IF solid = {} THEN <<>> ELSE SubSeq(s, SetMin(solid), SetMax(solid))

\* p occurs in s at index k (1-based)
MatchAt(s, p, k) ==
    /\ k >= 1
    /\ k + Len(p) - 1 <= Len(s)
    /\ \A j \in 1..Len(p) : s[k + j - 1] = p[j]

\* the lowercase p occurs in s at index k when case is ignored
MatchAtIgnoreCase(s, p, k) ==
    /\ k >= 1
    /\ k + Len(p) - 1 <= Len(s)
    /\ \A j \in 1..Len(p) : LowerOf[s[k + j - 1]] = p[j]

\* str.startswith(p)
StartsWith(s, p) == MatchAt(s, p, 1)

\* p in s
Contains(s, p) == \E k \in 1..(Len(s) - Len(p) + 1) : MatchAt(s, p, k)

\* str.replace(p, ""): every non-overlapping occurrence of p, left to right, is removed
RECURSIVE RemoveAll(_, _)
RemoveAll(s, p) ==
    IF Len(s) < Len(p) THEN s
    ELSE IF MatchAt(s, p, 1) THEN RemoveAll(SubSeq(s, Len(p) + 1, Len(s)), p)
    ELSE <<s[1]>> \o RemoveAll(Tail(s), p)

\* length of the longest run of characters of the class C that starts at index k
RunLen(s, k, C) ==
    IF k > Len(s) THEN 0
    ELSE IF s[k] \notin C THEN 0
    ELSE LET stops == {j \in k..Len(s) : s[j] \notin C}
         IN  IF stops = {} THEN Len(s) - k + 1 ELSE SetMin(stops) - k

\* value of a run of decimal digits
RECURSIVE DigitsValue(_)
DigitsValue(s) ==
    IF s = <<>> THEN 0
    ELSE 10 * DigitsValue(SubSeq(s, 1, Len(s) - 1)) + (Ord[s[Len(s)]] - Ord["0"])

\* decimal digits of n >= 0, without padding
RECURSIVE DecStr(_)
DecStr(n) == IF n < 10 THEN <<Chr(Ord["0"] + n)>> ELSE DecStr(n \div 10) \o <<Chr(Ord["0"] + (n % 10))>>

\* "%02d"
Pad2(n) == IF n < 10 THEN <<"0">> \o DecStr(n) ELSE DecStr(n)

\* a < b for Python strings: lexicographic by code point
RECURSIVE StrLess(_, _)
StrLess(a, b) ==
    IF b = <<>> THEN FALSE
    ELSE IF a = <<>> THEN TRUE
    ELSE IF a[1] # b[1] THEN Ord[a[1]] < Ord[b[1]]
    ELSE StrLess(Tail(a), Tail(b))

-----------------------------------------------------------------------------
(* Tables                                                                   *)

\* the weekday alternation of the date-header regular expressions (case-sensitive there)
WEEKDAYS == <<
    <<"M","o","n","d","a","y">>, <<"T","u","e","s","d","a","y">>, <<"W","e","d","n","e","s","d","a","y">>, <<"T","h","u","r","s","d","a","y">>,
    <<"F","r","i","d","a","y">>, <<"S","a","t","u","r","d","a","y">>, <<"S","u","n","d","a","y">> >>

\* MONTHS: also the full month names strptime's %B accepts, in calendar order
MONTHS == <<
    <<"j","a","n","u","a","r","y">>, <<"f","e","b","r","u","a","r","y">>, <<"m","a","r","c","h">>, <<"a","p","r","i","l">>, <<"m","a","y">>, <<"j","u","n","e">>,
    <<"j","u","l","y">>, <<"a","u","g","u","s","t">>, <<"s","e","p","t","e","m","b","e","r">>, <<"o","c","t","o","b","e","r">>, <<"n","o","v","e","m","b","e","r">>, <<"d","e","c","e","m","b","e","r">> >>

\* PLATFORM_PATTERNS in declaration order. Every pattern is an alternation of
\* escaped literals; alts holds the literals.
PLATFORM_PATTERNS == <<
    [label |-> <<"N","e","t","f","l","i","x">>,     alts |-> << <<"(","N","e","t","f","l","i","x",")">> >>],
    [label |-> <<"P","r","i","m","e"," ","V","i","d","e","o">>, alts |-> << <<"(","P","r","i","m","e"," ","V","i","d","e","o",")">> >>],
    [label |-> <<"H","B","O"," ","M","a","x">>,     alts |-> << <<"(","H","B","O"," ","M","a","x",")">>, <<"M","a","x",")">> >>],
    [label |-> <<"H","u","l","u">>,        alts |-> << <<"(","H","u","l","u",")">> >>],
    [label |-> <<"D","i","s","n","e","y","+">>,     alts |-> << <<"(","D","i","s","n","e","y","+",")">> >>],
    [label |-> <<"P","a","r","a","m","o","u","n","t","+">>,  alts |-> << <<"(","P","a","r","a","m","o","u","n","t","+",")">> >>],
    [label |-> <<"A","p","p","l","e"," ","T","V">>,    alts |-> << <<"(","A","p","p","l","e"," ","T","V",")">> >>],
    [label |-> <<"P","e","a","c","o","c","k">>,     alts |-> << <<"(","P","e","a","c","o","c","k",")">> >>],
    [label |-> <<"S","h","u","d","d","e","r">>,     alts |-> << <<"(","S","h","u","d","d","e","r",")">> >>],
    [label |-> <<"S","t","a","r","z">>,       alts |-> << <<"(","S","t","a","r","z",")">> >>],
    [label |-> <<"M","U","B","I">>,        alts |-> << <<"(","M","U","B","I",")">> >>],
    [label |-> <<"V","O","D","/","D","i","g","i","t","a","l">>, alts |-> << <<"(","V","O","D","/","D","i","g","i","t","a","l",")">>, <<"(","P","V","O","D",")">> >>],
    [label |-> <<"M","G","M","+">>,        alts |-> << <<"(","M","G","M","+",")">> >>],
    [label |-> <<"C","r","i","t","e","r","i","o","n">>,   alts |-> << <<"(","C","r","i","t","e","r","i","o","n",")">> >>],
    [label |-> <<"T","u","b","i">>,        alts |-> << <<"(","T","u","b","i",")">> >> ] >>

Unknown == <<"U","n","k","n","o","w","n">>
VOD_Digital == <<"V","O","D","/","D","i","g","i","t","a","l">>
SynopsisPrefix == <<"S","y","n","o","p","s","i","s",":">>
ReservedTitles == { <<"s","y","n","o","p","s","i","s">>, <<"c","a","s","t">> }
OrdinalSuffixes == { <<"s","t">>, <<"n","d">>, <<"r","d">>, <<"t","h">> }

-----------------------------------------------------------------------------
(* extract_platform                                                         *)

\* the literals of the table, lowercased
LoweredAlts ==
    [k \in 1..Len(PLATFORM_PATTERNS) |->
        [a \in 1..Len(PLATFORM_PATTERNS[k].alts) |-> Lower(PLATFORM_PATTERNS[k].alts[a])]]

\* re.search(pattern, text, re.IGNORECASE) for the k-th pattern of the table,
\* given low = text.lower(): for ASCII, ignoring case is comparing lowercased
PatternSearch(k, low) ==
    \E a \in 1..Len(LoweredAlts[k]) : Contains(low, LoweredAlts[k][a])

\* a changed loop: the table is walked from its last entry to its first
RECURSIVE extract_platform_reversed(_, _)
extract_platform_reversed(low, k) ==
    LET n == Len(PLATFORM_PATTERNS) + 1 - k
    IN  IF k > Len(PLATFORM_PATTERNS) THEN Unknown
        ELSE IF PatternSearch(n, low) THEN PLATFORM_PATTERNS[n].label
        ELSE extract_platform_reversed(low, k + 1)

\* the loop of extract_platform from the k-th table entry on; low = text.lower()
RECURSIVE extract_platform_from(_, _)
extract_platform_from(low, k) ==
    IF k > Len(PLATFORM_PATTERNS) THEN Unknown
    ELSE IF PatternSearch(k, low) THEN PLATFORM_PATTERNS[k].label
    ELSE extract_platform_from(low, k + 1)

extract_platform(s) == extract_platform_from(Lower(s), 1)

-----------------------------------------------------------------------------
(* parse_date_header                                                        *)

\* re.sub(r'(\d+)(st|nd|rd|th)', r'\1', text): a suffix that directly follows a
\* digit is dropped
RemoveOrdinals(s) ==
    LET suffixAt(k) == k >= 2 /\ IsDigit(s[k - 1])
                       /\ \E x \in OrdinalSuffixes : MatchAt(s, x, k)
        dropped == {k \in 1..Len(s) : suffixAt(k) \/ suffixAt(k - 1)}
        F[k \in 0..Len(s)] ==
            IF k = 0 THEN <<>>
            ELSE IF k \in dropped THEN F[k - 1] ELSE Append(F[k - 1], s[k])
    IN  F[Len(s)]

IsLeap(y) == (y % 4 = 0 /\ y % 100 # 0) \/ y % 400 = 0

DaysInMonth(y, m) ==
    IF m = 2 THEN (IF IsLeap(y) THEN 29 ELSE 28)
    ELSE IF m \in {4, 6, 9, 11} THEN 30 ELSE 31

\* dt.strftime("%Y-%m-%d"); glibc's %Y does not pad a year below 1000
FormatIso(y, m, d) == DecStr(y) \o <<"-">> \o Pad2(m) \o <<"-">> \o Pad2(d)

\* the "%B %d, %Y" part of a strptime format, matched in s from index p2 to the end
\* of s, followed by strftime: the ISO date, or None where strptime raises
\* ValueError. strptime matches the month name ignoring case, a blank of the
\* format as \s+, %d as one or two digits from 1 to 31 and %Y as four digits, and
\* requires the whole string to be consumed.
StrptimeDate(s, p2) ==
    LET ms == {m \in 1..Len(MONTHS) : MatchAtIgnoreCase(s, MONTHS[m], p2)}
    IN  IF ms = {} THEN None
        ELSE
        LET m  == CHOOSE x \in ms : TRUE
            p3 == p2 + Len(MONTHS[m])
            n3 == RunLen(s, p3, SpaceSet)
            p4 == p3 + n3
            nd == RunLen(s, p4, DigitSet)
            p5 == p4 + nd
            n5 == RunLen(s, p5 + 1, SpaceSet)
            p6 == p5 + 1 + n5
            ny == RunLen(s, p6, DigitSet)
        IN  IF \/ n3 < 1
               \/ nd \notin {1, 2}
               \/ ~MatchAt(s, <<",">>, p5)
               \/ n5 < 1
               \/ ny # 4
               \/ p6 + 3 # Len(s)
            THEN None
            ELSE
            LET d == DigitsValue(SubSeq(s, p4, p5 - 1))
                y == DigitsValue(SubSeq(s, p6, p6 + 3))
            IN  IF d < 1 \/ y < 1 \/ d > DaysInMonth(y, m) THEN None
                ELSE FormatIso(y, m, d)

\* datetime.strptime(s, "%A, %B %d, %Y") followed by strftime: the ISO date, or None
\* where strptime raises ValueError. The weekday name is matched ignoring case and
\* is not compared with the date.
Strptime(s) ==
    LET wds == {w \in 1..Len(WEEKDAYS) :
                    MatchAtIgnoreCase(s, Lower(WEEKDAYS[w]) \o <<",">>, 1)}
    IN  IF wds = {} THEN None
        ELSE
        LET w  == CHOOSE x \in wds : TRUE
            p1 == Len(WEEKDAYS[w]) + 2
            n1 == RunLen(s, p1, SpaceSet)
        IN  IF n1 < 1 THEN None ELSE StrptimeDate(s, p1 + n1)

parse_date_header(s) == Strptime(Strip(RemoveOrdinals(s)))

-----------------------------------------------------------------------------
(* The regular expressions and string steps of scrape_streaming_month       *)

\* re.match(r'^(Monday|...|Sunday),\s+\w+\s+\d+', line)
IsDateHeaderLine(line) ==
    \E w \in 1..Len(WEEKDAYS) :
        /\ StartsWith(line, WEEKDAYS[w] \o <<",">>)
        /\ LET a  == Len(WEEKDAYS[w]) + 2
               n1 == RunLen(line, a, SpaceSet)
               b  == a + n1
               n2 == RunLen(line, b, WordSet)
               c  == b + n2
               n3 == RunLen(line, c, SpaceSet)
               d  == c + n3
           IN  n1 >= 1 /\ n2 >= 1 /\ n3 >= 1 /\ d <= Len(line) /\ IsDigit(line[d])

\* re.match(r'^(Monday|...|Sunday),', line): what ends the synopsis lookahead
IsWeekdayLine(line) ==
    \E w \in 1..Len(WEEKDAYS) : StartsWith(line, WEEKDAYS[w] \o <<",">>)

\* the platform loop written out in scrape_streaming_month: the first label of
\* the table whose pattern is found in the line, None when there is none;
\* low = line.lower()
RECURSIVE platform_match_from(_, _)
platform_match_from(low, k) ==
    IF k > Len(PLATFORM_PATTERNS) THEN None
    ELSE IF PatternSearch(k, low) THEN PLATFORM_PATTERNS[k].label
    ELSE platform_match_from(low, k + 1)

platform_match(line) == platform_match_from(Lower(line), 1)

\* s[a..] matches \s*\([^)]+\)\s*$
TrailingGroupAt(s, a) ==
    LET b == a + RunLen(s, a, SpaceSet)
        m == RunLen(s, b + 1, NotCloseParenSet)
        c == b + 1 + m
    IN  /\ MatchAt(s, <<"(">>, b)
        /\ m >= 1
        /\ MatchAt(s, <<")">>, c)
        /\ \A j \in (c + 1)..Len(s) : IsSpace(s[j])

\* re.match(r'^(.+?)\s*\([^)]+\)\s*$', line): group(1), the shortest non-empty
\* prefix that a trailing parenthesized group follows; None without a match
title_match(line) ==
    LET ks == {k \in 1..(Len(line) - 1) : TrailingGroupAt(line, k + 1)}
    IN  IF ks = {} THEN None ELSE SubSeq(line, 1, SetMin(ks))

\* re.sub(r'^\[|\]$', '', title)
StripBrackets(t) ==
    LET u == IF StartsWith(t, <<"[">>) THEN Tail(t) ELSE t
    IN  IF u # <<>> /\ u[Len(u)] = "]" THEN SubSeq(u, 1, Len(u) - 1) ELSE u

\* the title as computed before the rejection test
ExtractTitle(line) == StripBrackets(Strip(title_match(line)))

\* a changed test: only the empty title is too short
TitleRejectedEmptyOnly(title) == Len(title) < 1 \/ Lower(title) \in ReservedTitles

\* len(title) < 2 or title.lower() in ['synopsis', 'cast']
TitleRejected(title) == Len(title) < 2 \/ Lower(title) \in ReservedTitles

\* title.title() if title.isupper() else title
NormalizeTitle(title) == IF IsUpperStr(title) THEN TitleCase(title) ELSE title

-----------------------------------------------------------------------------
(* scrape_movie_page                                                        *)

SvodPrefix == <<"S","V","O","D"," ","R","e","l","e","a","s","e"," ","D","a","t","e",":">>
VodPrefix == <<"V","O","D"," ","R","e","l","e","a","s","e"," ","D","a","t","e",":">>
DistributorWord == <<"D","i","s","t","r","i","b","u","t","o","r">>

\* index of the last character of a match of \w+ \d+, \d+ that starts at index p
\* of s; 0 without a match
DateStrEnd(s, p) ==
    LET w  == RunLen(s, p, WordSet)
        d  == RunLen(s, p + w + 1, DigitSet)
        y  == RunLen(s, p + w + d + 3, DigitSet)
    IN  IF /\ w >= 1
           /\ MatchAt(s, <<" ">>, p + w)
           /\ d >= 1
           /\ MatchAt(s, <<",", " ">>, p + w + 1 + d)
           /\ y >= 1
        THEN p + w + d + y + 2
        ELSE 0

\* re.search without a match
NoMatch == <<>>

\* a match of SVOD Release Date:\s*(\w+ \d+, \d+)\s*\(([^)]+)\) that starts at
\* index k of s: <<group(1), group(2)>>, or NoMatch
SvodMatchAt(s, k) ==
    IF ~MatchAt(s, SvodPrefix, k) THEN NoMatch
    ELSE
    LET a == k + Len(SvodPrefix) + RunLen(s, k + Len(SvodPrefix), SpaceSet)
        e == DateStrEnd(s, a)
        b == e + 1 + RunLen(s, e + 1, SpaceSet)
        m == RunLen(s, b + 1, NotCloseParenSet)
    IN  IF e > 0 /\ MatchAt(s, <<"(">>, b) /\ m >= 1 /\ MatchAt(s, <<")">>, b + 1 + m)
        THEN <<SubSeq(s, a, e), SubSeq(s, b + 1, b + m)>>
        ELSE NoMatch

\* re.search of the SVOD pattern: the leftmost match, or NoMatch
SvodSearch(s) ==
    LET ks == {k \in 1..Len(s) : SvodMatchAt(s, k) # NoMatch}
    IN  IF ks = {} THEN NoMatch ELSE SvodMatchAt(s, SetMin(ks))

\* a match of VOD Release Date:\s*(\w+ \d+, \d+) that starts at index k of s:
\* <<group(1)>>, or NoMatch
VodMatchAt(s, k) ==
    IF ~MatchAt(s, VodPrefix, k) THEN NoMatch
    ELSE
    LET a == k + Len(VodPrefix) + RunLen(s, k + Len(VodPrefix), SpaceSet)
        e == DateStrEnd(s, a)
    IN  IF e > 0 THEN <<SubSeq(s, a, e)>> ELSE NoMatch

\* re.search of the VOD pattern: the leftmost match, or NoMatch
VodSearch(s) ==
    LET ks == {k \in 1..Len(s) : VodMatchAt(s, k) # NoMatch}
    IN  IF ks = {} THEN NoMatch ELSE VodMatchAt(s, SetMin(ks))

\* info and distributor before the first line; None stands for an absent key
EmptyInfo == [date |-> None, platform |-> None, synopsis |-> None, distributor |-> None]

\* the SVOD branch of the loop body
AfterSvod(info, line) ==
    IF /\ Contains(line, SvodPrefix)
       /\ SvodSearch(line) # NoMatch
       /\ StrptimeDate(SvodSearch(line)[1], 1) # None
       /\ info.date = None
    THEN [info EXCEPT !.date = StrptimeDate(SvodSearch(line)[1], 1),
                      !.platform = SvodSearch(line)[2]]
    ELSE info

\* the VOD branch of the loop body; an SVOD line holds the VOD prefix as well
AfterVod(info, line) ==
    IF /\ Contains(line, VodPrefix)
       /\ VodSearch(line) # NoMatch
       /\ StrptimeDate(VodSearch(line)[1], 1) # None
       /\ info.date = None
    THEN [info EXCEPT !.date = StrptimeDate(VodSearch(line)[1], 1),
                      !.platform = VOD_Digital]
    ELSE info

\* the distributor branch of the loop body
AfterDistributor(info, line) ==
    IF ~Contains(line, DistributorWord) THEN info
    ELSE IF Contains(line, <<"M","U","B","I">>) THEN [info EXCEPT !.distributor = <<"M","U","B","I">>]
    ELSE IF Contains(line, <<"N","e","t","f","l","i","x">>) THEN [info EXCEPT !.distributor = <<"N","e","t","f","l","i","x">>]
    ELSE IF Contains(line, <<"H","u","l","u">>) THEN [info EXCEPT !.distributor = <<"H","u","l","u">>]
    ELSE IF Contains(line, <<"A","m","a","z","o","n">>) \/ Contains(line, <<"P","r","i","m","e">>)
         THEN [info EXCEPT !.distributor = <<"P","r","i","m","e"," ","V","i","d","e","o">>]
    ELSE IF Contains(line, <<"H","B","O">>) \/ Contains(line, <<"M","a","x">>)
         THEN [info EXCEPT !.distributor = <<"H","B","O"," ","M","a","x">>]
    ELSE info

\* the synopsis branch of the loop body
AfterSynopsis(info, line) ==
    IF Contains(line, SynopsisPrefix)
    THEN [info EXCEPT !.synopsis = Strip(RemoveAll(line, SynopsisPrefix))]
    ELSE info

\* the body of the loop over the lines of a movie page
MovieLineStep(info, line) ==
    AfterSynopsis(AfterDistributor(AfterVod(AfterSvod(info, line), line), line), line)

\* if info.get('platform') == 'VOD/Digital' and distributor: the distributor is the platform
DistributorOverride(info) ==
    IF info.platform = VOD_Digital /\ Truthy(info.distributor)
    THEN [info EXCEPT !.platform = info.distributor]
    ELSE info

-----------------------------------------------------------------------------
(* scrape_calendar_page                                                     *)

\* f"{year}-{month_num:02d}" with month_num = MONTHS.index(month.lower()) + 1
target_prefix(mo, yr) ==
    LET month_num == CHOOSE m \in 1..Len(MONTHS) : MONTHS[m] = Lower(mo)
    IN  DecStr(yr) \o <<"-">> \o Pad2(month_num)

\* the test a link passes to be a movie link
IsMovieLink(href, yr) ==
    /\ Contains(href, <<"-">> \o DecStr(yr) \o <<"/">>)
    /\ ~Contains(href, <<"s","t","r","e","a","m","i","n","g","-">>)
    /\ ~Contains(href, <<"t","h","e","a","t","e","r","s","-">>)
    /\ Contains(href, <<"w","h","e","n","t","o","s","t","r","e","a","m",".","c","o","m">>)

\* the loop over the links: the movie links among the first k, without repetition
RECURSIVE MovieUrlsAmong(_, _, _)
MovieUrlsAmong(hrefs, k, yr) ==
    IF k = 0 THEN <<>>
    ELSE LET found == MovieUrlsAmong(hrefs, k - 1, yr)
         IN  IF /\ IsMovieLink(hrefs[k], yr)
                /\ \A n \in 1..Len(found) : found[n] # hrefs[k]
             THEN Append(found, hrefs[k])
             ELSE found

\* str.replace('-', ' ')
DashesToSpaces(s) == [k \in 1..Len(s) |-> IF s[k] = "-" THEN " " ELSE s[k]]

\* re.sub(r'-\d{4}$', '', s)
DropYearSuffix(s) ==
    IF /\ Len(s) >= 5
       /\ s[Len(s) - 4] = "-"
       /\ \A k \in (Len(s) - 3)..Len(s) : IsDigit(s[k])
    THEN SubSeq(s, 1, Len(s) - 5)
    ELSE s

\* movie_url.split('/')[-2], for a url that holds a slash
SecondToLastSegment(url) ==
    LET slashes == {k \in 1..Len(url) : url[k] = "/"}
        last    == SetMax(slashes)
        before  == {k \in slashes : k < last}
        prev    == IF before = {} THEN 0 ELSE SetMax(before)
    IN  SubSeq(url, prev + 1, last - 1)

\* the title built from the url of a movie page
UrlTitle(url) == TitleCase(DashesToSpaces(DropYearSuffix(SecondToLastSegment(url))))

\* movie_info and movie_info.get('date') and movie_info.get('platform')
HasDateAndPlatform(info) == Truthy(info.date) /\ Truthy(info.platform)

\* a changed test: every dated movie is in the window
InWindowAlways(date, prefix) == TRUE

\* movie_info['date'].startswith(target_prefix)
InWindow(date, prefix) == StartsWith(date, prefix)

\* the record appended by scrape_calendar_page
CalendarRelease(url, info) ==
    [title |-> UrlTitle(url), date |-> info.date, platform |-> info.platform,
     synopsis |-> IF info.synopsis = None THEN <<>> ELSE info.synopsis,
     type |-> "streaming"]

MaxMovieLines == 2

\* the lines a movie page is made of
MovieLines == {
    <<"S","V","O","D"," ","R","e","l","e","a","s","e"," ","D","a","t","e",":"," ","D","e","c","e","m","b","e","r"," ","9",","," ","2","0","2","5"," ","(","N","e","t","f","l","i","x",")">>,
    <<"S","V","O","D"," ","R","e","l","e","a","s","e"," ","D","a","t","e",":"," ","J","a","n","u","a","r","y"," ","9",","," ","2","0","2","6"," ","(","F","a","n","d","a","n","g","o",")">>,
    <<"S","V","O","D"," ","R","e","l","e","a","s","e"," ","D","a","t","e",":"," ","D","e","c","e","m","b","e","r"," ","1","9",","," ","2","0","2","5">>,
    <<"V","O","D"," ","R","e","l","e","a","s","e"," ","D","a","t","e",":"," ","D","e","c","e","m","b","e","r"," ","2",","," ","2","0","2","5">>,
    <<"V","O","D"," ","R","e","l","e","a","s","e"," ","D","a","t","e",":"," ","N","o","v","e","m","b","e","r"," ","3","1",","," ","2","0","2","5">>,
    <<"D","i","s","t","r","i","b","u","t","o","r",":"," ","M","U","B","I">>,
    <<"S","y","n","o","p","s","i","s",":"," ","x">> }

MoviePages == UNION {[1..n -> MovieLines] : n \in 0..MaxMovieLines}

\* the links of the calendar page, in document order
CalendarHrefs == <<
    <<"h","t","t","p","s",":","/","/","w","h","e","n","t","o","s","t","r","e","a","m",".","c","o","m","/","u","p","-","2","0","2","5","/">>,
    <<"h","t","t","p","s",":","/","/","w","h","e","n","t","o","s","t","r","e","a","m",".","c","o","m","/","s","t","r","e","a","m","i","n","g","-","d","e","c","e","m","b","e","r","-","2","0","2","5","/">>,
    <<"h","t","t","p","s",":","/","/","w","h","e","n","t","o","s","t","r","e","a","m",".","c","o","m","/","f","o","o","-","b","a","r","-","2","0","2","5","/">>,
    <<"h","t","t","p","s",":","/","/","w","h","e","n","t","o","s","t","r","e","a","m",".","c","o","m","/","u","p","-","2","0","2","5","/">>,
    <<"h","t","t","p","s",":","/","/","e","x","a","m","p","l","e",".","c","o","m","/","x","-","2","0","2","5","/">>,
    <<"h","t","t","p","s",":","/","/","w","h","e","n","t","o","s","t","r","e","a","m",".","c","o","m","/","u","p","-","2","0","2","6","/">> >>

\* the month windows the page is scraped for
CalendarWindows == {
    [month |-> <<"d","e","c","e","m","b","e","r">>, year |-> 2025],
    [month |-> <<"j","a","n","u","a","r","y">>, year |-> 2026] }

InitCalendar ==
    /\ pc = "calendar"
    /\ \E w \in CalendarWindows : month = w.month /\ year = w.year
    /\ movie_urls = <<>> /\ movie_pos = 0 /\ calendar_releases = <<>>
    /\ movie_lines = <<>> /\ movie_line_pos = 0 /\ movie_info = EmptyInfo
    /\ ScanIdle /\ DedupIdle /\ text = <<>> /\ tagged = <<>>
    /\ TheatricalIdle /\ FunctionsIdle

\* the request for the calendar page fails: return []
CalendarFailed ==
    /\ pc = "calendar"
    /\ pc' = "calendar_done"
    /\ calendar_releases' = <<>>
    /\ UNCHANGED <<month, year, movie_urls, movie_pos, movie_lines, movie_line_pos, movie_info>>
    /\ UNCHANGED <<scanVars, dedupVars, text, tagged, theatricalVars, functionVars>>

\* the calendar page is fetched and its movie links are collected
FindLinks ==
    /\ pc = "calendar"
    /\ pc' = "movies"
    /\ movie_urls' = MovieUrlsAmong(CalendarHrefs, Len(CalendarHrefs), year)
    /\ movie_pos' = 0
    /\ calendar_releases' = <<>>
    /\ UNCHANGED <<month, year, movie_lines, movie_line_pos, movie_info>>
    /\ UNCHANGED <<scanVars, dedupVars, text, tagged, theatricalVars, functionVars>>

\* scrape_movie_page: the page of the next movie link is fetched and split into lines
FetchMovie ==
    /\ pc = "movies"
    /\ movie_pos < Len(movie_urls)
    /\ pc' = "movie_page"
    /\ movie_lines' \in MoviePages
    /\ movie_line_pos' = 0
    /\ movie_info' = EmptyInfo
    /\ UNCHANGED <<month, year, movie_urls, movie_pos, calendar_releases>>
    /\ UNCHANGED <<scanVars, dedupVars, text, tagged, theatricalVars, functionVars>>

\* scrape_movie_page: the request fails and None is returned, which the caller
\* treats as an info without a date; nothing is appended
MovieFailed ==
    /\ pc = "movies"
    /\ movie_pos < Len(movie_urls)
    /\ movie_pos' = movie_pos + 1
    /\ movie_info' = EmptyInfo
    /\ UNCHANGED <<pc, month, year, movie_urls, calendar_releases,
                   movie_lines, movie_line_pos>>
    /\ UNCHANGED <<scanVars, dedupVars, text, tagged, theatricalVars, functionVars>>

\* scrape_movie_page: one line of the page
MovieLine ==
    /\ pc = "movie_page"
    /\ movie_line_pos < Len(movie_lines)
    /\ movie_info' = MovieLineStep(movie_info, movie_lines[movie_line_pos + 1])
    /\ movie_line_pos' = movie_line_pos + 1
    /\ UNCHANGED <<pc, month, year, movie_urls, movie_pos, movie_lines, calendar_releases>>
    /\ UNCHANGED <<scanVars, dedupVars, text, tagged, theatricalVars, functionVars>>

\* scrape_movie_page returns info after the distributor step: it is the caller's
\* movie_info, and the lines of the page are gone
MovieReturned ==
    /\ pc' = "movies"
    /\ movie_pos' = movie_pos + 1
    /\ movie_lines' = <<>>
    /\ movie_line_pos' = 0
    /\ movie_info' = DistributorOverride(movie_info)
    /\ UNCHANGED <<month, year, movie_urls>>
    /\ UNCHANGED <<scanVars, dedupVars, text, tagged, theatricalVars, functionVars>>

\* a movie with a date inside the month: a record is appended
KeepMovie ==
    /\ pc = "movie_page"
    /\ movie_line_pos >= Len(movie_lines)
    /\ HasDateAndPlatform(DistributorOverride(movie_info))
    /\ InWindow(movie_info.date, target_prefix(month, year))
    /\ calendar_releases' =
           Append(calendar_releases,
                  CalendarRelease(movie_urls[movie_pos + 1], DistributorOverride(movie_info)))
    /\ MovieReturned

\* a movie with a date outside the month: skipped
SkipMovie ==
    /\ pc = "movie_page"
    /\ movie_line_pos >= Len(movie_lines)
    /\ HasDateAndPlatform(DistributorOverride(movie_info))
    /\ ~InWindow(movie_info.date, target_prefix(month, year))
    /\ UNCHANGED calendar_releases
    /\ MovieReturned

\* a movie page without a release date: nothing is appended
DropMovie ==
    /\ pc = "movie_page"
    /\ movie_line_pos >= Len(movie_lines)
    /\ ~HasDateAndPlatform(DistributorOverride(movie_info))
    /\ UNCHANGED calendar_releases
    /\ MovieReturned

\* every movie link has been processed: return releases
CalendarDone ==
    /\ pc = "movies"
    /\ movie_pos >= Len(movie_urls)
    /\ pc' = "calendar_done"
    /\ UNCHANGED <<calendarVars>>
    /\ UNCHANGED <<scanVars, dedupVars, text, tagged, theatricalVars, functionVars>>

NextCalendar ==
    \/ CalendarFailed
    \/ FindLinks
    \/ FetchMovie
    \/ MovieFailed
    \/ MovieLine
    \/ KeepMovie
    \/ SkipMovie
    \/ DropMovie
    \/ CalendarDone

SpecCalendar == InitCalendar /\ [][NextCalendar]_vars

\* for j in range(i + 1, min(i + 5, len(lines))): the synopsis of the first line
\* that starts with "Synopsis:", "" when a weekday line comes first or the range ends.
\* j and stop are 0-based, as in the code.
RECURSIVE synopsis_from(_, _, _)
synopsis_from(ls, j, stop) ==
    IF j >= stop THEN <<>>
    ELSE IF StartsWith(ls[j + 1], SynopsisPrefix)
         THEN Strip(RemoveAll(ls[j + 1], SynopsisPrefix))
    ELSE IF IsWeekdayLine(ls[j + 1]) THEN <<>>
    ELSE synopsis_from(ls, j + 1, stop)

LookaheadEnd == 5

find_synopsis(ls, k) ==
    synopsis_from(ls, k + 1, IF k + LookaheadEnd < Len(ls) THEN k + LookaheadEnd ELSE Len(ls))

\* the record appended by scrape_streaming_month
Release(title, date, platform, synopsis) ==
    [title |-> title, date |-> date, platform |-> platform,
     synopsis |-> synopsis, type |-> "streaming"]

\* a changed step: the record is put in front of the list
PrependRelease(rs, r) == <<r>> \o rs

\* a changed step: the record takes the place of the last one of the list
OverwriteRelease(rs, r) == IF rs = <<>> THEN <<r>> ELSE [rs EXCEPT ![Len(rs)] = r]

\* releases.append(r)
AppendRelease(rs, r) == Append(rs, r)

\* a changed update: current_date = parsed, also when the parse failed
DateAfterHeaderUnguarded(cur, line) == parse_date_header(line)

\* current_date after a date-header line: if parsed: current_date = parsed
DateAfterHeader(cur, line) ==
    LET parsed == parse_date_header(line)
    IN  IF Truthy(parsed) THEN parsed ELSE cur

\* a changed test: the date context is not required
IsCandidateWithoutDate(line, cur) == Truthy(platform_match(line))

\* if platform_match and current_date
IsCandidate(line, cur) == Truthy(platform_match(line)) /\ Truthy(cur)

-----------------------------------------------------------------------------
(* scrape_streaming_month: the scan of the preview page                     *)

MaxLines == 4

\* the lines a preview page is made of
PreviewLines == {
    <<"M","o","n","d","a","y",","," ","M","a","y"," ","1","s","t",","," ","2","0","2","5">>,
    <<"F","r","i","d","a","y",","," ","M","a","y"," ","2",","," ","2","0","2","5">>,
    <<"M","o","n","d","a","y",","," ","J","u","n","e"," ","3","1",","," ","2","0","2","5">>,
    <<"A","b"," ","(","N","e","t","f","l","i","x",")">>,
    <<"U","P"," ","(","h","u","l","u",")">>,
    <<"[","A","]"," ","(","M","a","x",")">>,
    <<"C","a","s","t"," ","(","T","u","b","i",")">>,
    <<"S","y","n","o","p","s","i","s",":"," ","x">>,
    <<"S","y","n","o","p","s","i","s",":"," ","y"," ","S","y","n","o","p","s","i","s",":"," ","z">> }

Pages == UNION {[1..n -> PreviewLines] : n \in 0..MaxLines}

\* a month for which the calendar page lists no movie
QuietWindow == [month |-> <<"n","o","v","e","m","b","e","r">>, year |-> 2024]

\* two preview pages, one with a synopsis line and one without
SamplePages == {
    << <<"M","o","n","d","a","y",","," ","M","a","y"," ","1","s","t",","," ","2","0","2","5">>, <<"A","b"," ","(","N","e","t","f","l","i","x",")">>, <<"S","y","n","o","p","s","i","s",":"," ","x">> >>,
    << <<"M","o","n","d","a","y",","," ","M","a","y"," ","1","s","t",","," ","2","0","2","5">>, <<"A","b"," ","(","N","e","t","f","l","i","x",")">> >> }

\* the inputs of scrape_streaming_month: the outcome of the preview request, the
\* lines of the preview page and the month window. response.text is the markup
\* of the page and lines its text, so that either may hold 'Synopsis:' without
\* the other. Every preview page is taken with a month whose calendar page
\* lists no movie; the two sample pages are taken with every month and with
\* both outcomes of the request.
PreviewInputs ==
    {[response |-> TRUE, lines |-> p, window |-> QuietWindow] : p \in Pages}
    \cup {[response |-> r, lines |-> p, window |-> w] :
            r \in BOOLEAN, p \in SamplePages, w \in CalendarWindows \cup {QuietWindow}}

Init ==
    /\ pc = "fetch"
    /\ \E inp \in PreviewInputs :
          /\ response = inp.response
          /\ lines = inp.lines
          /\ month = inp.window.month
          /\ year = inp.window.year
    /\ i = 0
    /\ current_date = None
    /\ releases = <<>>
    /\ all_releases = <<>> /\ pos = 0 /\ seen = <<>> /\ unique = <<>> /\ EnrichIdle
    /\ text = <<>> /\ tagged = <<>>
    /\ movie_urls = <<>> /\ movie_pos = 0 /\ calendar_releases = <<>>
    /\ movie_lines = <<>> /\ movie_line_pos = 0 /\ movie_info = EmptyInfo
    /\ TheatricalIdle /\ FunctionsIdle

\* if response: the preview page is split into lines and the scan starts
ParsePreview ==
    /\ pc = "fetch"
    /\ response
    /\ pc' = "scan"
    /\ i' = 0
    /\ current_date' = None
    /\ releases' = <<>>
    /\ UNCHANGED <<response, lines, all_releases, pos, seen, unique, text, tagged, extVars>>

\* no response, or no 'Synopsis:' in response.text: the preview page is not
\* scanned and scrape_calendar_page is called
NoPreview ==
    /\ pc = "fetch"
    /\ ~response
    /\ pc' = "calendar"
    /\ UNCHANGED <<response, lines, i, current_date, releases, all_releases, pos, seen, unique, text, tagged, extVars>>

\* a date-header line
DateHeader ==
    /\ pc = "scan"
    /\ i < Len(lines)
    /\ IsDateHeaderLine(lines[i + 1])
    /\ current_date' = DateAfterHeader(current_date, lines[i + 1])
    /\ i' = i + 1
    /\ UNCHANGED <<pc, response, lines, releases, all_releases, pos, seen, unique, text, tagged, extVars>>

\* a platform line under a date, with an accepted title: a record is appended
EmitRelease ==
    /\ pc = "scan"
    /\ i < Len(lines)
    /\ ~IsDateHeaderLine(lines[i + 1])
    /\ IsCandidate(lines[i + 1], current_date)
    /\ title_match(lines[i + 1]) # None
    /\ ~TitleRejected(ExtractTitle(lines[i + 1]))
    /\ releases' = AppendRelease(releases,
           Release(NormalizeTitle(ExtractTitle(lines[i + 1])), current_date,
                   platform_match(lines[i + 1]), find_synopsis(lines, i)))
    /\ i' = i + 1
    /\ UNCHANGED <<pc, response, lines, current_date, all_releases, pos, seen, unique, text, tagged, extVars>>

\* a platform line under a date whose title is rejected
RejectTitle ==
    /\ pc = "scan"
    /\ i < Len(lines)
    /\ ~IsDateHeaderLine(lines[i + 1])
    /\ IsCandidate(lines[i + 1], current_date)
    /\ title_match(lines[i + 1]) # None
    /\ TitleRejected(ExtractTitle(lines[i + 1]))
    /\ i' = i + 1
    /\ UNCHANGED <<pc, response, lines, current_date, releases, all_releases, pos, seen, unique, text, tagged, extVars>>

\* any other line
SkipLine ==
    /\ pc = "scan"
    /\ i < Len(lines)
    /\ ~IsDateHeaderLine(lines[i + 1])
    /\ ~(IsCandidate(lines[i + 1], current_date) /\ title_match(lines[i + 1]) # None)
    /\ i' = i + 1
    /\ UNCHANGED <<pc, response, lines, current_date, releases, all_releases, pos, seen, unique, text, tagged, extVars>>

\* the end of the lines: all_releases.extend(releases)
EndScan ==
    /\ pc = "scan"
    /\ i >= Len(lines)
    /\ pc' = "scanned"
    /\ all_releases' = all_releases \o releases
    /\ UNCHANGED <<response, lines, i, current_date, releases, pos, seen, unique, text, tagged, extVars>>

\* after the scan: calendar_releases = scrape_calendar_page(month, year) is called
CallCalendar ==
    /\ pc = "scanned"
    /\ pc' = "calendar"
    /\ UNCHANGED <<response, lines, i, current_date, releases, all_releases, pos, seen, unique, text, tagged, extVars>>

\* without a preview: return scrape_calendar_page(month, year); all_releases
\* stands for the list returned
ReturnCalendar ==
    /\ pc = "calendar_done"
    /\ ~response
    /\ all_releases' = calendar_releases
    /\ pc' = "returned"
    /\ UNCHANGED <<response, lines, i, current_date, releases, pos, seen, unique, text, tagged, extVars>>

\* after the scan: all_releases.extend(calendar_releases); return all_releases
ExtendCalendar ==
    /\ pc = "calendar_done"
    /\ response
    /\ all_releases' = all_releases \o calendar_releases
    /\ pc' = "returned"
    /\ UNCHANGED <<response, lines, i, current_date, releases, pos, seen, unique, text, tagged, extVars>>

Next ==
    \/ ParsePreview
    \/ NoPreview
    \/ DateHeader
    \/ EmitRelease
    \/ RejectTitle
    \/ SkipLine
    \/ EndScan
    \/ CallCalendar
    \/ CalendarFailed
    \/ FindLinks
    \/ FetchMovie
    \/ MovieFailed
    \/ MovieLine
    \/ KeepMovie
    \/ SkipMovie
    \/ DropMovie
    \/ CalendarDone
    \/ ReturnCalendar
    \/ ExtendCalendar

Spec == Init /\ [][Next]_vars
-----------------------------------------------------------------------------
(* main: the deduplication of the streaming releases                        *)

MaxCands == 3

\* candidates as the two passes produce them: a title, an ISO date, a platform
\* (a table label from the preview pass, any text in parentheses from a movie page)
CandTitles == { <<"F","o","o">>, <<"f","o","o">>, <<"B","a","r">> }
CandDates == { <<"2","0","2","5","-","1","2","-","0","1">>, <<"2","0","2","5","-","1","2","-","0","3">> }
CandPlatforms == { <<"N","e","t","f","l","i","x">>, VOD_Digital, Unknown }

Candidates ==
    {Release(t, d, p, <<>>) : t \in CandTitles, d \in CandDates, p \in CandPlatforms}

CandidateLists == UNION {[1..n -> Candidates] : n \in 0..MaxCands}

\* a changed key: the title as it is
DedupKeyExact(r) == r.title

\* key = r['title'].lower()
DedupKey(r) == Lower(r.title)

\* key in seen
InSeen(key) == \E k \in 1..Len(seen) : seen[k].key = key

\* seen[key]
SeenValue(key) == seen[CHOOSE k \in 1..Len(seen) : seen[k].key = key].value

\* a changed store: a stored key keeps the date it had
SeenStoreOldDate(key, r) ==
    IF InSeen(key)
    THEN [k \in 1..Len(seen) |->
            IF seen[k].key = key
            THEN [key |-> key, value |-> [r EXCEPT !.date = seen[k].value.date]]
            ELSE seen[k]]
    ELSE Append(seen, [key |-> key, value |-> r])

\* a changed store: a stored key is taken out and put at the end
SeenStoreAtEnd(key, r) ==
    LET others == {k \in 1..Len(seen) : seen[k].key # key}
        F[k \in 0..Len(seen)] ==
            IF k = 0 THEN <<>>
            ELSE IF k \in others THEN Append(F[k - 1], seen[k]) ELSE F[k - 1]
    IN  Append(F[Len(seen)], [key |-> key, value |-> r])

\* seen[key] = r: a new key is appended, a stored key keeps its place
SeenStore(key, r) ==
    IF InSeen(key)
    THEN [k \in 1..Len(seen) |->
            IF seen[k].key = key THEN [key |-> key, value |-> r] ELSE seen[k]]
    ELSE Append(seen, [key |-> key, value |-> r])

\* a changed test: == in place of != for the new platform
IsPlaceholderUpgradeSame(old, new) ==
    old.platform = VOD_Digital /\ new.platform = VOD_Digital

\* seen[key]['platform'] == 'VOD/Digital' and r['platform'] != 'VOD/Digital'
IsPlaceholderUpgrade(old, new) ==
    old.platform = VOD_Digital /\ new.platform # VOD_Digital

\* a changed test: the new platform is not looked at
BothSpecificOldOnly(old, new) == old.platform # VOD_Digital

\* seen[key]['platform'] != 'VOD/Digital' and r['platform'] != 'VOD/Digital'
BothSpecific(old, new) ==
    old.platform # VOD_Digital /\ new.platform # VOD_Digital

\* a changed test: < in place of >
IsEarlier(old, new) == StrLess(new.date, old.date)

\* a changed test: >= in place of >
IsLaterOrSame(old, new) == ~StrLess(new.date, old.date)

\* r['date'] > seen[key]['date']
IsLater(old, new) == StrLess(old.date, new.date)

\* r is put after the last element whose date is not greater than its own
InsertByDate(sorted, r) ==
    LET greater == {k \in 1..Len(sorted) : StrLess(r.date, sorted[k].date)}
    IN  IF greater = {} THEN Append(sorted, r)
        ELSE SubSeq(sorted, 1, SetMin(greater) - 1) \o <<r>>
             \o SubSeq(sorted, SetMin(greater), Len(sorted))

\* a changed sort: an element is put before the elements of equal date
SortByDateUnstable(s) ==
    LET before(sorted, r) ==
            LET notless == {k \in 1..Len(sorted) : ~StrLess(sorted[k].date, r.date)}
            IN  IF notless = {} THEN Append(sorted, r)
                ELSE SubSeq(sorted, 1, SetMin(notless) - 1) \o <<r>>
                     \o SubSeq(sorted, SetMin(notless), Len(sorted))
        F[k \in 0..Len(s)] == IF k = 0 THEN <<>> ELSE before(F[k - 1], s[k])
    IN  F[Len(s)]

\* list.sort(key=lambda x: x['date']): ascending, stable
SortByDate(s) ==
    LET F[k \in 0..Len(s)] == IF k = 0 THEN <<>> ELSE InsertByDate(F[k - 1], s[k])
    IN  F[Len(s)]

\* list(seen.values())
SeenValues == [k \in 1..Len(seen) |-> seen[k].value]

\* key not in seen
InsertNew ==
    /\ pc = "dedup"
    /\ pos < Len(all_releases)
    /\ ~InSeen(DedupKey(all_releases[pos + 1]))
    /\ seen' = SeenStore(DedupKey(all_releases[pos + 1]), all_releases[pos + 1])
    /\ pos' = pos + 1
    /\ UNCHANGED <<pc, response, lines, i, current_date, releases, all_releases, unique, text, tagged, extVars>>

\* the stored entry is VOD/Digital and the new one is not
ReplacePlaceholder ==
    /\ pc = "dedup"
    /\ pos < Len(all_releases)
    /\ InSeen(DedupKey(all_releases[pos + 1]))
    /\ IsPlaceholderUpgrade(SeenValue(DedupKey(all_releases[pos + 1])), all_releases[pos + 1])
    /\ seen' = SeenStore(DedupKey(all_releases[pos + 1]), all_releases[pos + 1])
    /\ pos' = pos + 1
    /\ UNCHANGED <<pc, response, lines, i, current_date, releases, all_releases, unique, text, tagged, extVars>>

\* neither is VOD/Digital and the new date is greater
ReplaceLater ==
    /\ pc = "dedup"
    /\ pos < Len(all_releases)
    /\ InSeen(DedupKey(all_releases[pos + 1]))
    /\ ~IsPlaceholderUpgrade(SeenValue(DedupKey(all_releases[pos + 1])), all_releases[pos + 1])
    /\ BothSpecific(SeenValue(DedupKey(all_releases[pos + 1])), all_releases[pos + 1])
    /\ IsLater(SeenValue(DedupKey(all_releases[pos + 1])), all_releases[pos + 1])
    /\ seen' = SeenStore(DedupKey(all_releases[pos + 1]), all_releases[pos + 1])
    /\ pos' = pos + 1
    /\ UNCHANGED <<pc, response, lines, i, current_date, releases, all_releases, unique, text, tagged, extVars>>

\* every other duplicate: seen is left as it is
KeepExisting ==
    /\ pc = "dedup"
    /\ pos < Len(all_releases)
    /\ InSeen(DedupKey(all_releases[pos + 1]))
    /\ ~IsPlaceholderUpgrade(SeenValue(DedupKey(all_releases[pos + 1])), all_releases[pos + 1])
    /\ ~(/\ BothSpecific(SeenValue(DedupKey(all_releases[pos + 1])), all_releases[pos + 1])
         /\ IsLater(SeenValue(DedupKey(all_releases[pos + 1])), all_releases[pos + 1]))
    /\ pos' = pos + 1
    /\ UNCHANGED <<pc, response, lines, i, current_date, releases, all_releases, seen, unique, text, tagged, extVars>>

\* unique = list(seen.values()); unique.sort(key=lambda x: x['date'])
SortUnique ==
    /\ pc = "dedup"
    /\ pos >= Len(all_releases)
    /\ unique' = SortByDate(SeenValues)
    /\ pc' = "sorted"
    /\ UNCHANGED <<response, lines, i, current_date, releases, all_releases, pos, seen, text, tagged, extVars>>

-----------------------------------------------------------------------------
(* extract_platform, applied to one text                                    *)

\* what a text holds after its title: nothing, a pattern of the table as it is
\* written, or a variant in another case, inside a longer word, or of no pattern
TagMarkers ==
    {<<>>, <<"(","n","e","t","f","l","i","x",")">>, <<"(","H","U","L","U",")">>, <<"(","I","M","A","X",")">>, <<"(","M","a","x">>, <<"(","F","a","n","d","a","n","g","o",")">>}
    \cup UNION {{PLATFORM_PATTERNS[k].alts[a] : a \in 1..Len(PLATFORM_PATTERNS[k].alts)} :
                    k \in 1..Len(PLATFORM_PATTERNS)}

TagTexts == {<<"T"," ">> \o a \o b : a \in TagMarkers, b \in TagMarkers}

InitTag ==
    /\ pc = "tag"
    /\ text \in TagTexts
    /\ tagged = <<>>
    /\ response = FALSE /\ lines = <<>> /\ i = 0 /\ current_date = None /\ releases = <<>>
    /\ all_releases = <<>> /\ pos = 0 /\ seen = <<>> /\ unique = <<>> /\ EnrichIdle
    /\ ExtIdle

\* tagged = extract_platform(text)
TagText ==
    /\ pc = "tag"
    /\ tagged' = extract_platform(text)
    /\ pc' = "tagged"
    /\ UNCHANGED <<response, lines, i, current_date, releases, all_releases, pos, seen, unique, text, extVars>>

NextTag == TagText

SpecTagger == InitTag /\ [][NextTag]_vars

-----------------------------------------------------------------------------
(* get_months_to_scrape                                                     *)

MaxYears == 10

\* what datetime.now() may give: every month of a few years
NowYears == 2025..(2025 + MaxYears - 1)
NowValues == [year : NowYears, month : 1..12]

\* for offset in [0, 1]
Offsets == <<0, 1>>

\* month_idx = (now.month - 1 + offset) % 12
month_idx(n, offset) == (n.month - 1 + offset) % 12

\* a changed sum: the year is never carried
MonthYearSame(n, offset) == n.year

\* year = now.year + ((now.month + offset - 1) // 12)
MonthYear(n, offset) == n.year + ((n.month + offset - 1) \div 12)

\* (MONTHS[month_idx], year); MONTHS is indexed from 1 here
MonthWindow(n, offset) == <<MONTHS[month_idx(n, offset) + 1], MonthYear(n, offset)>>

InitMonths ==
    /\ pc = "months"
    /\ now \in NowValues
    /\ months = <<>>
    /\ ScanIdle /\ DedupIdle /\ text = <<>> /\ tagged = <<>>
    /\ CalendarIdle /\ TheatricalIdle
    /\ parse_result = <<>> /\ slug_title = <<>> /\ slug = <<>>

\* one turn of the loop: the offset is the one whose turn it is
AppendMonth ==
    /\ pc = "months"
    /\ Len(months) < Len(Offsets)
    /\ months' = Append(months, MonthWindow(now, Offsets[Len(months) + 1]))
    /\ UNCHANGED <<pc, now, parse_result, slug_title, slug>>
    /\ UNCHANGED <<scanVars, dedupVars, text, tagged, calendarVars, theatricalVars>>

\* return months
ReturnMonths ==
    /\ pc = "months"
    /\ Len(months) >= Len(Offsets)
    /\ pc' = "months_done"
    /\ UNCHANGED <<now, months, parse_result, slug_title, slug>>
    /\ UNCHANGED <<scanVars, dedupVars, text, tagged, calendarVars, theatricalVars>>

NextMonths ==
    \/ AppendMonth
    \/ ReturnMonths

SpecMonths == InitMonths /\ [][NextMonths]_vars

-----------------------------------------------------------------------------
(* parse_date_header called on its own                                      *)

\* the parts header strings are put together from
HeaderWeekdays == { <<"M","o","n","d","a","y">>, <<"S","u","n","d","a","y">>, <<"M","o","n">>, <<"F","u","n","d","a","y">> }
HeaderMonths == { <<"D","e","c","e","m","b","e","r">>, <<"F","e","b","r","u","a","r","y">>, <<"A","p","r","i","l">>, <<"D","e","c">>, <<"F","e","b","t","o","b","e","r">> }
HeaderDays == { <<"1">>, <<"2">>, <<"3">>, <<"2","2">>, <<"2","9">>, <<"3","0">>, <<"3","1">> }
HeaderSuffixes == { <<>> } \cup OrdinalSuffixes
HeaderYears == { <<"2","0","2","5">>, <<"2","0","2","4">>, <<"0","9","9","9">> }

\* 'Weekday, Month D(st|nd|rd|th), YYYY'
HeaderText(w, m, d, x, y) == w \o <<","," ">> \o m \o <<" ">> \o d \o x \o <<","," ">> \o y

HeaderTexts ==
    {HeaderText(w, m, d, x, y) :
        w \in HeaderWeekdays, m \in HeaderMonths, d \in HeaderDays,
        x \in HeaderSuffixes, y \in HeaderYears}

InitParser ==
    /\ pc = "parser"
    /\ text \in HeaderTexts
    /\ parse_result = <<>>
    /\ ScanIdle /\ DedupIdle /\ tagged = <<>>
    /\ CalendarIdle /\ TheatricalIdle
    /\ slug_title = <<>> /\ slug = <<>>
    /\ now = [year |-> 0, month |-> 0] /\ months = <<>>

\* parse_date_header(text) returns
ParseHeader ==
    /\ pc = "parser"
    /\ parse_result' = parse_date_header(text)
    /\ pc' = "parsed"
    /\ UNCHANGED <<text, slug_title, slug, now, months>>
    /\ UNCHANGED <<scanVars, dedupVars, tagged, calendarVars, theatricalVars>>

NextParser == ParseHeader

SpecParser == InitParser /\ [][NextParser]_vars

-----------------------------------------------------------------------------
(* title_to_letterboxd_slug                                                 *)

\* the en dash and the em dash, one character each, outside ASCII
EnDash == "ENDASH"
EmDash == "EMDASH"

\* the characters of [:'\"!?,.]
SlugPunctuation == {":", "'", "\"", "!", "?", ",", "."}

\* \s over the characters of the titles: the blank and the tab
WhitespaceSet == SpaceSet \cup {"\t"}

\* str.lower() of a string that may hold the two dashes, which have no case
LowerText(s) == [k \in 1..Len(s) |-> IF s[k] \in AsciiSet THEN LowerOf[s[k]] ELSE s[k]]

\* a changed step: the year group is cut off a second time
StripYearTwice(t) ==
    LET once(u) ==
            LET ks == {k \in 1..(Len(u) - 5) :
                          /\ u[k] = "("
                          /\ \A j \in (k + 1)..(k + 4) : IsDigit(u[j])
                          /\ u[k + 5] = ")"
                          /\ \A j \in (k + 6)..Len(u) : u[j] \in WhitespaceSet}
            IN  IF ks = {} THEN u
                ELSE LET k == SetMin(ks)
                         solid == {j \in 1..(k - 1) : u[j] \notin WhitespaceSet}
                     IN  IF solid = {} THEN <<>> ELSE SubSeq(u, 1, SetMax(solid))
    IN  once(once(t))

\* re.sub(r'\s*\(\d{4}\)\s*$', '', title): a parenthesised group of four digits
\* that only whitespace follows is cut off together with the whitespace around it
StripYear(t) ==
    LET ks == {k \in 1..(Len(t) - 5) :
                  /\ t[k] = "("
                  /\ \A j \in (k + 1)..(k + 4) : IsDigit(t[j])
                  /\ t[k + 5] = ")"
                  /\ \A j \in (k + 6)..Len(t) : t[j] \in WhitespaceSet}
    IN  IF ks = {} THEN t
        ELSE LET k == SetMin(ks)
                 solid == {j \in 1..(k - 1) : t[j] \notin WhitespaceSet}
             IN  IF solid = {} THEN <<>> ELSE SubSeq(t, 1, SetMax(solid))

\* re.sub(r"[:'\"!?,.]", '', slug)
RemovePunctuation(s) ==
    LET F[k \in 0..Len(s)] ==
            IF k = 0 THEN <<>>
            ELSE IF s[k] \in SlugPunctuation THEN F[k - 1] ELSE Append(F[k - 1], s[k])
    IN  F[Len(s)]

\* re.sub(r'[–—]', '-', slug)
NormalizeDashes(s) == [k \in 1..Len(s) |-> IF s[k] \in {EnDash, EmDash} THEN "-" ELSE s[k]]

\* re.sub(C+, '-', slug) for a character class C: every maximal run of characters
\* of C becomes one hyphen
RunsToHyphen(s, C) ==
    LET F[k \in 0..Len(s)] ==
            IF k = 0 THEN <<>>
            ELSE IF s[k] \notin C THEN Append(F[k - 1], s[k])
            ELSE IF k > 1 /\ s[k - 1] \in C THEN F[k - 1]
            ELSE Append(F[k - 1], "-")
    IN  F[Len(s)]

\* a changed step: the hyphens are left as they are
KeepHyphens(s) == s

\* re.sub(r'-+', '-', slug)
CollapseHyphens(s) == RunsToHyphen(s, {"-"})

\* slug.strip('-')
StripHyphens(s) ==
    LET solid == {k \in 1..Len(s) : s[k] # "-"}
    IN  IF solid = {} THEN <<>> ELSE SubSeq(s, SetMin(solid), SetMax(solid))

title_to_letterboxd_slug(t) ==
    StripHyphens(CollapseHyphens(RunsToHyphen(
        NormalizeDashes(RemovePunctuation(LowerText(StripYear(t)))), WhitespaceSet)))

MaxChunks == 3

\* the pieces titles are put together from
TitleChunks == {
    <<"T","h","e"," ","M","o","v","i","e",":"," ","P","a","r","t"," ","T","w","o","!">>, <<" ","(","2","0","2","5",")">>, <<"(","1","9","9","9",")">>, <<"(","2","0",")">>, <<"U","p">>, <<"A"," ","-"," ","b">>,
    <<" ">>, <<"\t">>, <<"-">>, <<EnDash>>, <<EmDash>>, <<"'">>, <<"?">> }

RECURSIVE Concat(_)
Concat(ss) == IF ss = <<>> THEN <<>> ELSE Head(ss) \o Concat(Tail(ss))

SlugTitles == {Concat(cs) : cs \in UNION {[1..n -> TitleChunks] : n \in 0..MaxChunks}}

InitSlug ==
    /\ pc = "slug"
    /\ slug_title \in SlugTitles
    /\ slug = <<>>
    /\ ScanIdle /\ DedupIdle /\ text = <<>> /\ tagged = <<>>
    /\ CalendarIdle /\ TheatricalIdle
    /\ parse_result = <<>>
    /\ now = [year |-> 0, month |-> 0] /\ months = <<>>

\* title_to_letterboxd_slug(title) returns
Slugify ==
    /\ pc = "slug"
    /\ slug' = title_to_letterboxd_slug(slug_title)
    /\ pc' = "slugged"
    /\ UNCHANGED <<slug_title, parse_result, now, months>>
    /\ UNCHANGED <<scanVars, dedupVars, text, tagged, calendarVars, theatricalVars>>

NextSlug == Slugify

SpecSlug == InitSlug /\ [][NextSlug]_vars

-----------------------------------------------------------------------------
(* get_letterboxd_rating                                                    *)

\* s[:n]
Prefix(s, n) == SubSeq(s, 1, IF n < Len(s) THEN n ELSE Len(s))

\* the characters of [\d.]
RatingChars == DigitSet \cup {"."}

\* the index at which the longest run of characters of C that starts at k ends
\* (k - 1 when there is none)
RunEnd(t, k, C) ==
    LET stops == {j \in k..Len(t) : t[j] \notin C}
    IN  IF stops = {} THEN Len(t) ELSE SetMin(stops) - 1

\* re.search(r'([\d.]+)\s*out of', rating_text): group 1 of the leftmost match, None
\* when the text has no match. Neither a digit nor a period nor whitespace begins
\* "out of", so both repetitions take the whole of their run.
RatingMatch(t) ==
    LET starts == {k \in 1..Len(t) :
                      /\ t[k] \in RatingChars
                      /\ MatchAt(t, <<"o","u","t"," ","o","f">>,
                                 RunEnd(t, RunEnd(t, k, RatingChars) + 1, WhitespaceSet) + 1)}
    IN  IF starts = {} THEN None
        ELSE SubSeq(t, SetMin(starts), RunEnd(t, SetMin(starts), RatingChars))

\* float(s) of digits and periods succeeds with at most one period and a digit
IsFloat(s) ==
    /\ Cardinality({k \in 1..Len(s) : s[k] = "."}) <= 1
    /\ \E k \in 1..Len(s) : IsDigit(s[k])

\* float(s), written as Python writes the number (3.5, 4.0, 0.0): the digits before
\* the period without leading zeros, those after it without trailing zeros. The
\* rating texts have at most two digits on either side of the period.
FloatOf(s) ==
    LET dots == {k \in 1..Len(s) : s[k] = "."}
        whole == IF dots = {} THEN s ELSE SubSeq(s, 1, SetMin(dots) - 1)
        frac == IF dots = {} THEN <<>> ELSE SubSeq(s, SetMin(dots) + 1, Len(s))
        lead == {k \in 1..Len(whole) : whole[k] # "0"}
        trail == {k \in 1..Len(frac) : frac[k] # "0"}
    IN  (IF lead = {} THEN <<"0">> ELSE SubSeq(whole, SetMin(lead), Len(whole)))
        \o <<".">>
        \o (IF trail = {} THEN <<"0">> ELSE SubSeq(frac, 1, SetMax(trail)))

\* the truth value of a rating: None and 0.0 are false
RatingTruthy(rating) == rating # None /\ rating # <<"0",".","0">>

\* a URL that does not answer: the request raises or the status is not 200
NoPage == [ok |-> FALSE, rating_meta |-> None, og_image |-> None, img |-> None]

\* the page behind a URL
PageAt(url) == IF url \in DOMAIN letterboxd THEN letterboxd[url] ELSE NoPage

\* the return value None, as a record of the shape of result
NoRating == [url |-> None, rating |-> None, poster |-> None]

\* one round of the loop over urls_to_try: the result that is returned, NoRating when
\* the loop goes on to the next URL. rating_meta, og_image and img are the content of
\* the twitter:data2 tag, the content of the og:image tag and the src of the first
\* img of class image, None for a tag the page does not have. A float() that fails
\* raises inside the try, which ends the round.
PageResult(url, page) ==
    IF ~page.ok THEN NoRating
    ELSE LET match == IF page.rating_meta = None THEN None ELSE RatingMatch(page.rating_meta)
         IN  IF match # None /\ ~IsFloat(match) THEN NoRating
             ELSE LET rating == IF match = None THEN None ELSE FloatOf(match)
                      og == IF /\ Truthy(page.og_image)
                               /\ Contains(page.og_image, <<"l","e","t","t","e","r","b","o","x","d">>)
                            THEN page.og_image ELSE None
                      poster == IF Truthy(og) THEN og
                                ELSE IF page.img # None THEN page.img ELSE None
                  IN  IF RatingTruthy(rating) \/ Truthy(poster)
                      THEN [url |-> url, rating |-> rating, poster |-> poster]
                      ELSE NoRating

\* urls_to_try: the URL with the year first when a year is given
UrlsToTry(title, release_year) ==
    LET film == <<"h","t","t","p","s",":","/","/","l","e","t","t","e","r","b","o","x","d",".","c","o","m","/","f","i","l","m","/">> \o title_to_letterboxd_slug(title)
    IN  IF Truthy(release_year)
        THEN << film \o <<"-">> \o release_year \o <<"/">>, film \o <<"/">> >>
        ELSE << film \o <<"/">> >>

\* the result of the first URL that gives a rating or a poster, None when none does
get_letterboxd_rating(title, release_year) ==
    LET urls == UrlsToTry(title, release_year)
        hits == {k \in 1..Len(urls) : PageResult(urls[k], PageAt(urls[k])).url # None}
    IN  IF hits = {} THEN NoRating
        ELSE PageResult(urls[SetMin(hits)], PageAt(urls[SetMin(hits)]))
-----------------------------------------------------------------------------
(* main: the deduplication of the theatrical releases                       *)

MaxTheatrical == 3

TMDB_IMAGE_BASE == <<"h","t","t","p","s",":","/","/","i","m","a","g","e",".","t","m","d","b",".","o","r","g","/","t","/","p","/","w","1","5","4">>

\* the movies of a TMDB answer: a title, a release date, a popularity, and no
\* overview and no poster
TheatricalTitles == { <<"F","o","o">>, <<"f","o","o">>, <<"B","a","r">> }
TheatricalDates == { <<"2","0","2","5","-","1","2","-","0","5">>, <<"2","0","2","5","-","1","2","-","0","1">> }
Popularities == {2, 9, 30}

TheatricalMovies ==
    [title : TheatricalTitles, release_date : TheatricalDates, popularity : Popularities,
     overview : {<<>>}, poster_path : {None}, id : {7}]

\* wide or limited, by popularity
ReleaseType(popularity) ==
    IF popularity > 25 THEN <<"W","i","d","e"," ","R","e","l","e","a","s","e">>
    ELSE IF popularity > 8 THEN <<"W","i","d","e"," ","R","e","l","e","a","s","e">>
    ELSE <<"L","i","m","i","t","e","d">>

\* the record get_tmdb_theatrical_releases appends for a movie
TheatricalRelease(movie) ==
    [title |-> movie.title,
     date |-> movie.release_date,
     platform |-> ReleaseType(movie.popularity),
     synopsis |-> movie.overview,
     type |-> "theatrical",
     poster |-> IF Truthy(movie.poster_path)
                THEN TMDB_IMAGE_BASE \o movie.poster_path ELSE None,
     tmdb_id |-> movie.id,
     letterboxd_rating |-> None,
     letterboxd_url |-> None]

TheatricalCandidates == {TheatricalRelease(m) : m \in TheatricalMovies}

TheatricalLists == UNION {[1..n -> TheatricalCandidates] : n \in 0..MaxTheatrical}

\* the contents of a page: the twitter:data2 text, the og:image address, the src of
\* the img of class image
RatingTexts == { None, <<"3",".","5"," ","o","u","t"," ","o","f"," ","5">>, <<"R","a","t","e","d"," ","0","4",".","5","0"," "," ","o","u","t"," ","o","f"," ","5">>, <<"0"," ","o","u","t"," ","o","f"," ","5">>,
                 <<"1",".","2",".","3"," ","o","u","t"," ","o","f"," ","5">>, <<"5"," ","s","t","a","r","s">> }
OgImages == { None, <<"h","t","t","p","s",":","/","/","a",".","l","e","t","t","e","r","b","o","x","d",".","c","o","m","/","p",".","j","p","g">>, <<"h","t","t","p","s",":","/","/","x",".","c","o","m","/","p",".","j","p","g">> }
ImgSources == { None, <<>>, <<"/","i",".","j","p","g">> }

LetterboxdPages ==
    {NoPage} \cup [ok : {TRUE}, rating_meta : RatingTexts, og_image : OgImages, img : ImgSources]

\* a page with a rating, a page with a poster only, a page with neither
SampleLetterboxdPages == {
    NoPage,
    [ok |-> TRUE, rating_meta |-> <<"3",".","5"," ","o","u","t"," ","o","f"," ","5">>, og_image |-> None, img |-> None],
    [ok |-> TRUE, rating_meta |-> None, og_image |-> <<"h","t","t","p","s",":","/","/","a",".","l","e","t","t","e","r","b","o","x","d",".","c","o","m","/","p",".","j","p","g">>, img |-> None],
    [ok |-> TRUE, rating_meta |-> <<"5"," ","s","t","a","r","s">>, og_image |-> None, img |-> None] }

\* the URLs main asks for when it rates the releases of a list
UrlsOf(rs) ==
    UNION {{UrlsToTry(rs[k].title, Prefix(rs[k].date, 4))[j] : j \in 1..2} : k \in 1..Len(rs)}

\* lists that bring the rating loop to two releases with one slug, to releases with
\* the same title on two dates, and to a duplicate behind a rated release
SampleTheatricalLists == {
    << TheatricalRelease([title |-> <<"F","o","o">>, release_date |-> <<"2","0","2","5","-","1","2","-","0","5">>, popularity |-> 30,
                          overview |-> <<>>, poster_path |-> None, id |-> 7]) >>,
    << TheatricalRelease([title |-> <<"F","o","o">>, release_date |-> <<"2","0","2","5","-","1","2","-","0","5">>, popularity |-> 30,
                          overview |-> <<>>, poster_path |-> None, id |-> 7]),
       TheatricalRelease([title |-> <<"B","a","r">>, release_date |-> <<"2","0","2","5","-","1","2","-","0","1">>, popularity |-> 2,
                          overview |-> <<>>, poster_path |-> None, id |-> 7]),
       TheatricalRelease([title |-> <<"F","o","o">>, release_date |-> <<"2","0","2","5","-","1","2","-","0","5">>, popularity |-> 30,
                          overview |-> <<>>, poster_path |-> None, id |-> 7]) >>,
    << TheatricalRelease([title |-> <<"f","o","o">>, release_date |-> <<"2","0","2","5","-","1","2","-","0","5">>, popularity |-> 9,
                          overview |-> <<>>, poster_path |-> None, id |-> 7]),
       TheatricalRelease([title |-> <<"F","o","o">>, release_date |-> <<"2","0","2","5","-","1","2","-","0","1">>, popularity |-> 30,
                          overview |-> <<>>, poster_path |-> None, id |-> 7]) >> }

\* Letterboxd with a rating for foo of 2025 and a poster for bar
SampleSite ==
    [u \in UrlsOf(<< [title |-> <<"F","o","o">>, date |-> <<"2","0","2","5","-","1","2","-","0","5">>],
                     [title |-> <<"B","a","r">>, date |-> <<"2","0","2","5","-","1","2","-","0","5">>] >>) |->
        IF u = <<"h","t","t","p","s",":","/","/","l","e","t","t","e","r","b","o","x","d",".","c","o","m","/","f","i","l","m","/","f","o","o","-","2","0","2","5","/">>
        THEN [ok |-> TRUE, rating_meta |-> <<"3",".","5"," ","o","u","t"," ","o","f"," ","5">>, og_image |-> None, img |-> None]
        ELSE IF u = <<"h","t","t","p","s",":","/","/","l","e","t","t","e","r","b","o","x","d",".","c","o","m","/","f","i","l","m","/","b","a","r","/">>
        THEN [ok |-> TRUE, rating_meta |-> None,
              og_image |-> <<"h","t","t","p","s",":","/","/","a",".","l","e","t","t","e","r","b","o","x","d",".","c","o","m","/","p",".","j","p","g">>, img |-> None]
        ELSE NoPage]

\* every list with Letterboxd as SampleSite, one release with every page
\* behind its two URLs, and the sample lists with every choice of sample pages
TheatricalInputs ==
    {[theatrical_releases |-> rs, letterboxd |-> site] :
        rs \in TheatricalLists, site \in {SampleSite}}
    \cup UNION {{[theatrical_releases |-> rs, letterboxd |-> site] :
                    site \in [UrlsOf(rs) -> LetterboxdPages]} :
                 rs \in {l \in SampleTheatricalLists : Len(l) = 1}}
    \cup UNION {{[theatrical_releases |-> rs, letterboxd |-> site] :
                    site \in [UrlsOf(rs) -> SampleLetterboxdPages]} : rs \in SampleTheatricalLists}

InitTheatrical ==
    /\ pc = "theatrical"
    /\ \E inp \in TheatricalInputs :
          /\ theatrical_releases = inp.theatrical_releases
          /\ letterboxd = inp.letterboxd
    /\ theatrical_pos = 0
    /\ seen_theatrical = {}
    /\ unique_theatrical = <<>>
    /\ rating_pos = 0
    /\ data_theatrical = <<>>
    /\ ScanIdle /\ DedupIdle /\ text = <<>> /\ tagged = <<>>
    /\ CalendarIdle /\ FunctionsIdle

\* a changed key: the date is left out
TheatricalKeyTitleOnly(r) == <<Lower(r.title)>>

\* key = (r['title'].lower(), r['date'])
TheatricalKey(r) == <<Lower(r.title), r.date>>

\* key not in seen_theatrical: the key is added and the record appended
KeepTheatrical ==
    /\ pc = "theatrical"
    /\ theatrical_pos < Len(theatrical_releases)
    /\ TheatricalKey(theatrical_releases[theatrical_pos + 1]) \notin seen_theatrical
    /\ seen_theatrical' =
          seen_theatrical \cup {TheatricalKey(theatrical_releases[theatrical_pos + 1])}
    /\ unique_theatrical' =
          Append(unique_theatrical, theatrical_releases[theatrical_pos + 1])
    /\ theatrical_pos' = theatrical_pos + 1
    /\ UNCHANGED <<pc, theatrical_releases, letterboxd, rating_pos, data_theatrical>>
    /\ UNCHANGED <<scanVars, dedupVars, text, tagged, calendarVars, functionVars>>

\* key in seen_theatrical: the record is passed over
DropTheatrical ==
    /\ pc = "theatrical"
    /\ theatrical_pos < Len(theatrical_releases)
    /\ TheatricalKey(theatrical_releases[theatrical_pos + 1]) \in seen_theatrical
    /\ theatrical_pos' = theatrical_pos + 1
    /\ UNCHANGED <<pc, theatrical_releases, seen_theatrical, unique_theatrical,
                   letterboxd, rating_pos, data_theatrical>>
    /\ UNCHANGED <<scanVars, dedupVars, text, tagged, calendarVars, functionVars>>

\* unique_theatrical.sort(key=lambda x: x['date'])
SortTheatrical ==
    /\ pc = "theatrical"
    /\ theatrical_pos >= Len(theatrical_releases)
    /\ unique_theatrical' = SortByDate(unique_theatrical)
    /\ pc' = "theatrical_sorted"
    /\ UNCHANGED <<theatrical_releases, theatrical_pos, seen_theatrical,
                   letterboxd, rating_pos, data_theatrical>>
    /\ UNCHANGED <<scanVars, dedupVars, text, tagged, calendarVars, functionVars>>

\* the release the rating loop is at
RatedRelease == unique_theatrical[rating_pos + 1]

\* year = release['date'][:4] if release.get('date') else None;
\* rating_info = get_letterboxd_rating(release['title'], year)
RatingInfo ==
    get_letterboxd_rating(RatedRelease.title,
                          IF Truthy(RatedRelease.date) THEN Prefix(RatedRelease.date, 4) ELSE None)

\* release['letterboxd_rating'] = rating_info.get('rating');
\* release['letterboxd_url'] = rating_info.get('url')
WithRating(release, rating_info) ==
    [release EXCEPT !.letterboxd_rating = rating_info.rating,
                    !.letterboxd_url = rating_info.url]

\* the place of a release of unique_theatrical in theatrical_releases: the two lists
\* hold the same dict, the first of its key
PlaceOfRelease(release) ==
    SetMin({k \in 1..Len(theatrical_releases) :
               TheatricalKey(theatrical_releases[k]) = TheatricalKey(release)})

\* rating_info is not None: the two fields of the release are set, in the dict that
\* unique_theatrical and theatrical_releases share
RateTheatrical ==
    /\ pc = "theatrical_sorted"
    /\ rating_pos < Len(unique_theatrical)
    /\ RatingInfo.url # None
    /\ unique_theatrical' =
          [unique_theatrical EXCEPT ![rating_pos + 1] = WithRating(@, RatingInfo)]
    /\ theatrical_releases' =
          [theatrical_releases EXCEPT ![PlaceOfRelease(RatedRelease)] = WithRating(@, RatingInfo)]
    /\ rating_pos' = rating_pos + 1
    /\ UNCHANGED <<pc, theatrical_pos, seen_theatrical, letterboxd, data_theatrical>>
    /\ UNCHANGED <<scanVars, dedupVars, text, tagged, calendarVars, functionVars>>

\* rating_info is None: the release is left as it is
LeaveUnrated ==
    /\ pc = "theatrical_sorted"
    /\ rating_pos < Len(unique_theatrical)
    /\ RatingInfo.url = None
    /\ rating_pos' = rating_pos + 1
    /\ UNCHANGED <<pc, theatrical_releases, theatrical_pos, seen_theatrical, unique_theatrical,
                   letterboxd, data_theatrical>>
    /\ UNCHANGED <<scanVars, dedupVars, text, tagged, calendarVars, functionVars>>

\* data["theatrical"] = unique_theatrical
StoreTheatrical ==
    /\ pc = "theatrical_sorted"
    /\ rating_pos >= Len(unique_theatrical)
    /\ data_theatrical' = unique_theatrical
    /\ pc' = "theatrical_stored"
    /\ UNCHANGED <<theatrical_releases, theatrical_pos, seen_theatrical, unique_theatrical,
                   letterboxd, rating_pos>>
    /\ UNCHANGED <<scanVars, dedupVars, text, tagged, calendarVars, functionVars>>

NextTheatrical ==
    \/ KeepTheatrical
    \/ DropTheatrical
    \/ SortTheatrical
    \/ RateTheatrical
    \/ LeaveUnrated
    \/ StoreTheatrical

SpecTheatrical == InitTheatrical /\ [][NextTheatrical]_vars

-----------------------------------------------------------------------------
(* main: the Letterboxd ratings and the TMDB posters of the streaming       *)
(* releases                                                                 *)

\* get_tmdb_poster: the poster URL of the first result of the search for a title and
\* a year, None when the search gives no poster
get_tmdb_poster(title, release_year) ==
    IF /\ <<title, release_year>> \in DOMAIN tmdb_posters
       /\ Truthy(tmdb_posters[<<title, release_year>>])
    THEN TMDB_IMAGE_BASE \o tmdb_posters[<<title, release_year>>]
    ELSE None

\* the release the loop is at
EnrichedRelease == unique[enrich_pos + 1]

\* year = release['date'][:4] if release.get('date') else None
EnrichYear == IF Truthy(EnrichedRelease.date) THEN Prefix(EnrichedRelease.date, 4) ELSE None

\* rating_info = get_letterboxd_rating(release['title'], year)
EnrichRatingInfo == get_letterboxd_rating(EnrichedRelease.title, EnrichYear)

\* the release with its three new fields: letterboxd_rating and letterboxd_url from
\* rating_info (both None when rating_info is None), poster from get_tmdb_poster
WithRatingAndPoster(release, rating_info, poster_url) ==
    [title |-> release.title, date |-> release.date, platform |-> release.platform,
     synopsis |-> release.synopsis, type |-> release.type,
     letterboxd_rating |-> rating_info.rating,
     letterboxd_url |-> rating_info.url,
     poster |-> poster_url]

\* the place in all_releases of the dict that seen holds under a key: the candidate
\* the deduplication stored last
KeptPlace(key) ==
    LET W[k \in 0..Len(all_releases)] ==
            IF k = 0 THEN 0
            ELSE IF DedupKey(all_releases[k]) # key THEN W[k - 1]
            ELSE IF W[k - 1] = 0 THEN k
            ELSE IF \/ IsPlaceholderUpgrade(all_releases[W[k - 1]], all_releases[k])
                    \/ /\ BothSpecific(all_releases[W[k - 1]], all_releases[k])
                       /\ IsLater(all_releases[W[k - 1]], all_releases[k])
                 THEN k
            ELSE W[k - 1]
    IN  W[Len(all_releases)]

\* the three fields are written to the dict, which unique, seen and all_releases share
EnrichShared(e) ==
    /\ unique' = [unique EXCEPT ![enrich_pos + 1] = e]
    /\ seen' = [k \in 1..Len(seen) |->
                  IF seen[k].key = DedupKey(EnrichedRelease)
                  THEN [key |-> seen[k].key, value |-> e] ELSE seen[k]]
    /\ all_releases' = [all_releases EXCEPT ![KeptPlace(DedupKey(EnrichedRelease))] = e]

\* the loop over unique starts
StartEnrich ==
    /\ pc = "sorted"
    /\ pc' = "enrich"
    /\ UNCHANGED <<response, lines, i, current_date, releases, all_releases, pos, seen, unique, text, tagged, extVars>>

\* rating_info is not None: its rating and URL and the poster are set
RateRelease ==
    /\ pc = "enrich"
    /\ enrich_pos < Len(unique)
    /\ EnrichRatingInfo.url # None
    /\ EnrichShared(WithRatingAndPoster(EnrichedRelease, EnrichRatingInfo,
                                        get_tmdb_poster(EnrichedRelease.title, EnrichYear)))
    /\ enrich_pos' = enrich_pos + 1
    /\ UNCHANGED <<pc, response, lines, i, current_date, releases, pos, text, tagged>>
    /\ UNCHANGED <<calendarVars, theatricalVars, functionVars, tmdb_posters, data_releases>>

\* rating_info is None: the two rating fields are set to None, the poster is set
LeaveReleaseUnrated ==
    /\ pc = "enrich"
    /\ enrich_pos < Len(unique)
    /\ EnrichRatingInfo.url = None
    /\ EnrichShared(WithRatingAndPoster(EnrichedRelease, NoRating,
                                        get_tmdb_poster(EnrichedRelease.title, EnrichYear)))
    /\ enrich_pos' = enrich_pos + 1
    /\ UNCHANGED <<pc, response, lines, i, current_date, releases, pos, text, tagged>>
    /\ UNCHANGED <<calendarVars, theatricalVars, functionVars, tmdb_posters, data_releases>>

\* data = {..., "releases": unique, "theatrical": []}
StoreReleases ==
    /\ pc = "enrich"
    /\ enrich_pos >= Len(unique)
    /\ data_releases' = unique
    /\ pc' = "stored"
    /\ UNCHANGED <<response, lines, i, current_date, releases, all_releases, pos, seen, unique, text, tagged>>
    /\ UNCHANGED <<calendarVars, theatricalVars, functionVars, tmdb_posters, enrich_pos>>

\* the searches main makes for the releases of a list
SearchesOf(rs) == {<<rs[k].title, Prefix(rs[k].date, 4)>> : k \in 1..Len(rs)}

PosterPaths == { None, <<"/","p",".","j","p","g">> }

\* TMDB with a poster for Foo of 2025
SamplePosters == [q \in {<< <<"F","o","o">>, <<"2","0","2","5">> >>} |-> <<"/","p",".","j","p","g">>]

\* lists that bring the loop to a release that took the place of a placeholder and
\* to two candidates that are equal in every field
SampleCandidateLists == {
    << Release(<<"F","o","o">>, <<"2","0","2","5","-","1","2","-","0","1">>, <<"N","e","t","f","l","i","x">>, <<>>) >>,
    << Release(<<"F","o","o">>, <<"2","0","2","5","-","1","2","-","0","3">>, VOD_Digital, <<>>),
       Release(<<"B","a","r">>, <<"2","0","2","5","-","1","2","-","0","1">>, <<"N","e","t","f","l","i","x">>, <<>>),
       Release(<<"f","o","o">>, <<"2","0","2","5","-","1","2","-","0","3">>, <<"N","e","t","f","l","i","x">>, <<>>) >>,
    << Release(<<"B","a","r">>, <<"2","0","2","5","-","1","2","-","0","1">>, <<"N","e","t","f","l","i","x">>, <<>>),
       Release(<<"B","a","r">>, <<"2","0","2","5","-","1","2","-","0","1">>, <<"N","e","t","f","l","i","x">>, <<>>) >> }

\* every list with Letterboxd as SampleSite and TMDB as SamplePosters, and the sample
\* lists with every choice of sample pages and of posters
DedupInputs ==
    {[all_releases |-> rs, letterboxd |-> SampleSite, tmdb_posters |-> SamplePosters] :
        rs \in CandidateLists}
    \cup UNION {{[all_releases |-> rs, letterboxd |-> site, tmdb_posters |-> posters] :
                    site \in [UrlsOf(rs) -> SampleLetterboxdPages],
                    posters \in [SearchesOf(rs) -> PosterPaths]} :
                 rs \in SampleCandidateLists}

InitDedup ==
    /\ pc = "dedup"
    /\ \E inp \in DedupInputs :
          /\ all_releases = inp.all_releases
          /\ letterboxd = inp.letterboxd
          /\ tmdb_posters = inp.tmdb_posters
    /\ pos = 0
    /\ seen = <<>>
    /\ unique = <<>>
    /\ enrich_pos = 0
    /\ data_releases = <<>>
    /\ response = FALSE /\ lines = <<>> /\ i = 0 /\ current_date = None /\ releases = <<>>
    /\ text = <<>> /\ tagged = <<>>
    /\ CalendarIdle /\ FunctionsIdle
    /\ theatrical_releases = <<>> /\ theatrical_pos = 0
    /\ seen_theatrical = {} /\ unique_theatrical = <<>>
    /\ rating_pos = 0 /\ data_theatrical = <<>>

NextDedup ==
    \/ InsertNew
    \/ ReplacePlaceholder
    \/ ReplaceLater
    \/ KeepExisting
    \/ SortUnique
    \/ StartEnrich
    \/ RateRelease
    \/ LeaveReleaseUnrated
    \/ StoreReleases

SpecDedup == InitDedup /\ [][NextDedup]_vars

-----------------------------------------------------------------------------
(* Properties of the scan (specification Spec)                              *)

\* the date of the last line among the first n that is a date header and parses
LastParsedHeaderDate(ls, n) ==
    LET hs == {k \in 1..n : IsDateHeaderLine(ls[k]) /\ parse_date_header(ls[k]) # None}
    IN  IF hs = {} THEN None ELSE parse_date_header(ls[SetMax(hs)])

\* the step appends a record
Emits == Len(releases') > Len(releases)

Emitted == releases'[Len(releases')]

\* C1: a record is emitted only while the current-date context is set, and its
\* date is the normalized date of the most recent date-header line before its
\* platform line that parsed successfully.
C1_DateContext ==
    [][Emits =>
        /\ current_date # None
        /\ LastParsedHeaderDate(lines, i) # None
        /\ releases' = Append(releases, Emitted)
        /\ Emitted.date = LastParsedHeaderDate(lines, i)]_vars

\* two headers with different dates have been read and the record emitted after
\* them carries the date of the second
C1_Witness ==
    /\ pc = "scan"
    /\ i = 3
    /\ IsDateHeaderLine(lines[1]) /\ IsDateHeaderLine(lines[2])
    /\ parse_date_header(lines[1]) # None
    /\ parse_date_header(lines[2]) # None
    /\ parse_date_header(lines[1]) # parse_date_header(lines[2])
    /\ Len(releases) = 1
    /\ releases[1].date = parse_date_header(lines[2])

\* C7: a date-header line emits no record and the scan moves to the next line;
\* the context becomes the parsed date when the line parses, and is left as it
\* was when the line has the header shape but does not parse.
C7_HeaderHandling ==
    [][(pc = "scan" /\ i < Len(lines) /\ IsDateHeaderLine(lines[i + 1])) =>
        /\ releases' = releases
        /\ i' = i + 1
        /\ pc' = "scan"
        /\ current_date' = IF parse_date_header(lines[i + 1]) # None
                           THEN parse_date_header(lines[i + 1])
                           ELSE current_date]_vars

\* a header that parses, a header-shaped line that does not, then a platform line
\* whose record carries the first header's date
C7_Witness ==
    /\ pc = "scan"
    /\ i = 3
    /\ IsDateHeaderLine(lines[1]) /\ parse_date_header(lines[1]) # None
    /\ IsDateHeaderLine(lines[2]) /\ parse_date_header(lines[2]) = None
    /\ current_date = parse_date_header(lines[1])
    /\ Len(releases) = 1
    /\ releases[1].date = parse_date_header(lines[1])

\* the synopsis the lookahead is said to give for the platform line at 0-based
\* index k: the rest of the first "Synopsis:" line among the next four lines,
\* unless a date-header line comes before it
ClaimedSynopsis(ls, k) ==
    LET last == IF k + 5 < Len(ls) THEN k + 5 ELSE Len(ls)
        win  == (k + 2)..last
        syn  == {j \in win : StartsWith(ls[j], SynopsisPrefix)}
    IN  IF syn = {} THEN <<>>
        ELSE IF \E h \in win : h < SetMin(syn) /\ IsDateHeaderLine(ls[h]) THEN <<>>
        ELSE Strip(SubSeq(ls[SetMin(syn)], Len(SynopsisPrefix) + 1, Len(ls[SetMin(syn)])))

\* C8: the synopsis of an emitted record is the remainder of the first line that
\* begins with "Synopsis:" among the four lines after its platform line when no
\* date-header line comes before it, and is empty otherwise.
C8_SynopsisIsRemainder ==
    [][Emits => Emitted.synopsis = ClaimedSynopsis(lines, i)]_vars

\* a line with a platform pattern and a trailing group whose title, brackets
\* stripped, is shorter than 2 characters or a reserved token
HasRejectedTitle(line) ==
    /\ platform_match(line) # None
    /\ title_match(line) # None
    /\ \/ Len(StripBrackets(Strip(title_match(line)))) < 2
       \/ Lower(StripBrackets(Strip(title_match(line)))) \in { <<"s","y","n","o","p","s","i","s">>, <<"c","a","s","t">> }

\* C10: a platform line with a rejected title emits no record and the scan moves
\* to the next line; no emitted record has a title shorter than 2 characters or
\* equal to "synopsis" or "cast" ignoring case.
C10_TitleRejection ==
    [][/\ (pc = "scan" /\ i < Len(lines) /\ HasRejectedTitle(lines[i + 1])) =>
            (releases' = releases /\ i' = i + 1)
       /\ \A k \in 1..Len(releases') :
            /\ Len(releases'[k].title) >= 2
            /\ Lower(releases'[k].title) \notin { <<"s","y","n","o","p","s","i","s">>, <<"c","a","s","t">> }]_vars

\* under a date, a bracketed one-letter title and a reserved title have both been
\* passed over without a record
C10_Witness ==
    /\ pc = "scan"
    /\ i = 3
    /\ current_date # None
    /\ IsDateHeaderLine(lines[1])
    /\ HasRejectedTitle(lines[2])
    /\ Len(Strip(title_match(lines[2]))) >= 2
    /\ Len(StripBrackets(Strip(title_match(lines[2])))) < 2
    /\ HasRejectedTitle(lines[3])
    /\ Lower(Strip(title_match(lines[3]))) \in { <<"s","y","n","o","p","s","i","s">>, <<"c","a","s","t">> }
    /\ releases = <<>>

-----------------------------------------------------------------------------
(* Properties of the deduplication (specification SpecDedup)                *)

Placeholders == {VOD_Digital, Unknown}

\* the candidate the loop is at
Cand == all_releases[pos + 1]

\* the value stored in the items s under key
ValueIn(s, key) == s[CHOOSE k \in 1..Len(s) : s[k].key = key].value

\* the loop is at a candidate whose lowercased title is already stored
AtDuplicate ==
    /\ pc = "dedup"
    /\ pos < Len(all_releases)
    /\ \E k \in 1..Len(seen) : seen[k].key = Lower(Cand.title)

Stored == ValueIn(seen, Lower(Cand.title))

\* an ISO date as a number that orders as the calendar does
DateValue(d) ==
    LET dash == SetMin({k \in 1..Len(d) : d[k] = "-"})
    IN  DigitsValue(SubSeq(d, 1, dash - 1)) * 10000
        + DigitsValue(SubSeq(d, dash + 1, dash + 2)) * 100
        + DigitsValue(SubSeq(d, dash + 4, dash + 5))

\* C2 as stated: a stored VOD/Digital or Unknown entry is replaced by a
\* candidate with a specific platform, whatever the dates.
C2_PlaceholderReplaced ==
    [][(AtDuplicate /\ Stored.platform \in Placeholders
                    /\ Cand.platform \notin Placeholders) =>
        ValueIn(seen', Lower(Cand.title)) = Cand]_vars

\* C2 amended: a stored VOD/Digital entry is replaced by a candidate of any other
\* platform, whatever the dates, and nothing else in seen changes.
C2_VodReplaced ==
    [][(AtDuplicate /\ Stored.platform = VOD_Digital
                    /\ Cand.platform # VOD_Digital) =>
        /\ ValueIn(seen', Lower(Cand.title)) = Cand
        /\ Len(seen') = Len(seen)
        /\ \A k \in 1..Len(seen) :
              /\ seen'[k].key = seen[k].key
              /\ seen[k].key # Lower(Cand.title) => seen'[k] = seen[k]]_vars

\* a VOD/Digital entry was replaced by a later candidate with a specific platform
\* and an earlier date
C2_Witness ==
    /\ pc = "dedup"
    /\ pos = 2
    /\ Lower(all_releases[1].title) = Lower(all_releases[2].title)
    /\ all_releases[1].platform = VOD_Digital
    /\ all_releases[2].platform \notin Placeholders
    /\ DateValue(all_releases[2].date) < DateValue(all_releases[1].date)
    /\ seen = <<[key |-> Lower(all_releases[2].title), value |-> all_releases[2]]>>

\* C3: when the stored entry and the candidate both carry specific platforms,
\* the stored entry is replaced if and only if the candidate's date is strictly
\* later; with an equal or earlier date it is kept.
C3_LaterDate ==
    [][(AtDuplicate /\ Stored.platform \notin Placeholders
                    /\ Cand.platform \notin Placeholders) =>
        ValueIn(seen', Lower(Cand.title)) =
            IF DateValue(Cand.date) > DateValue(Stored.date) THEN Cand ELSE Stored]_vars

\* three candidates of one title with specific platforms: the second, of equal
\* date, was passed over and the third, of later date, replaced the first
C3_Witness ==
    /\ pc = "dedup"
    /\ pos = 3
    /\ \A k \in 1..3 :
          /\ Lower(all_releases[k].title) = Lower(all_releases[1].title)
          /\ all_releases[k].platform \notin Placeholders
    /\ all_releases[2] # all_releases[1]
    /\ DateValue(all_releases[2].date) = DateValue(all_releases[1].date)
    /\ DateValue(all_releases[3].date) > DateValue(all_releases[1].date)
    /\ seen = <<[key |-> Lower(all_releases[1].title), value |-> all_releases[3]]>>

\* C4 as stated: a candidate whose platform is VOD/Digital or Unknown, met where
\* the stored entry is specific or itself VOD/Digital or Unknown, leaves the
\* stored entry as it is.
C4_PlaceholderKept ==
    [][(AtDuplicate /\ Cand.platform \in Placeholders) => seen' = seen]_vars

\* C4 amended: a candidate whose platform is VOD/Digital leaves seen as it is,
\* whatever the stored platform and the dates.
C4_VodKept ==
    [][(AtDuplicate /\ Cand.platform = VOD_Digital) => seen' = seen]_vars

\* a VOD/Digital candidate of later date was passed over, a specific entry being
\* stored for its title
C4_Witness ==
    /\ pc = "dedup"
    /\ pos = 2
    /\ Lower(all_releases[1].title) = Lower(all_releases[2].title)
    /\ all_releases[1].platform \notin Placeholders
    /\ all_releases[2].platform = VOD_Digital
    /\ DateValue(all_releases[2].date) > DateValue(all_releases[1].date)
    /\ seen = <<[key |-> Lower(all_releases[1].title), value |-> all_releases[1]]>>

\* C5: the output holds at most one record per lowercased title.
C5_UniqueTitles ==
    pc = "sorted" =>
        \A a, b \in 1..Len(unique) :
            a # b => Lower(unique[a].title) # Lower(unique[b].title)

\* three candidates whose titles differ only in case left one record
C5_Witness ==
    /\ pc = "sorted"
    /\ Len(all_releases) = 3
    /\ \E a, b \in 1..3 : all_releases[a].title # all_releases[b].title
    /\ Len(unique) = 1

\* the index of the first candidate with the lowercased title of r
FirstSeen(r) ==
    SetMin({k \in 1..Len(all_releases) : Lower(all_releases[k].title) = Lower(r.title)})

\* C6: the output is the stored entries in ascending date order, and two records
\* of equal date stand in the order in which their titles were first inserted.
C6_SortedStable ==
    pc = "sorted" =>
        /\ Len(unique) = Len(seen)
        /\ \A k \in 1..Len(seen) : \E a \in 1..Len(unique) : unique[a] = seen[k].value
        /\ \A a, b \in 1..Len(unique) :
              a < b =>
                /\ DateValue(unique[a].date) <= DateValue(unique[b].date)
                /\ DateValue(unique[a].date) = DateValue(unique[b].date)
                      => FirstSeen(unique[a]) < FirstSeen(unique[b])

\* two records of equal date stand in insertion order, against the order of
\* their titles
C6_Witness ==
    /\ pc = "sorted"
    /\ Len(unique) = 2
    /\ unique[1].date = unique[2].date
    /\ StrLess(unique[2].title, unique[1].title)
    /\ FirstSeen(unique[1]) < FirstSeen(unique[2])

-----------------------------------------------------------------------------
(* Properties of extract_platform (specification SpecTagger)                *)

\* the k-th pattern occurs in s, letters compared without regard to case
OccursIgnoringCase(k, s) ==
    \E a \in 1..Len(PLATFORM_PATTERNS[k].alts) :
        LET p == PLATFORM_PATTERNS[k].alts[a]
        IN  \E at \in 0..(Len(s) - Len(p)) :
                \A j \in 1..Len(p) : LowerOf[s[at + j]] = LowerOf[p[j]]

\* C9: the label returned is that of the first pattern, in the declaration order
\* of the table, that occurs in the text ignoring case; "Unknown" when none does.
C9_FirstDeclaredWins ==
    pc = "tagged" =>
        LET hits == {k \in 1..Len(PLATFORM_PATTERNS) : OccursIgnoringCase(k, text)}
        IN  tagged = IF hits = {} THEN <<"U","n","k","n","o","w","n">>
                     ELSE PLATFORM_PATTERNS[SetMin(hits)].label

\* a text with the Hulu pattern before the Netflix pattern, in another case, is
\* tagged Netflix
C9_Witness ==
    /\ pc = "tagged"
    /\ text = <<"T"," ","(","H","U","L","U",")","(","N","e","t","f","l","i","x",")">>
    /\ tagged = <<"N","e","t","f","l","i","x">>

-----------------------------------------------------------------------------
(* Further properties of the scan (specification Spec)                      *)

\* a line that is not a date header, holds a platform pattern and a trailing
\* group, and whose title is not rejected
AcceptedLine(line) ==
    /\ ~IsDateHeaderLine(line)
    /\ platform_match(line) # None
    /\ title_match(line) # None
    /\ ~HasRejectedTitle(line)

\* the 1-based indices, among the first n lines, of the accepted lines that a
\* parsed date header precedes
AcceptedUnderDate(ls, n) ==
    {k \in 1..n : AcceptedLine(ls[k]) /\ LastParsedHeaderDate(ls, k - 1) # None}

\* the j-th smallest element of the set S of numbers
NthOf(S, j) == CHOOSE k \in S : Cardinality({x \in S : x < k}) = j - 1

\* C12: each platform line with an accepted title under a date header emits
\* exactly one record of its own, dated with that header, and the records stand
\* in the order of their lines; a header, a Netflix line, its synopsis line and
\* a Hulu line give two records of the same date, Netflix with the synopsis and
\* then Hulu with an empty one.
C12_OneRecordPerLine ==
    pc = "scanned" =>
        /\ Len(releases) = Cardinality(AcceptedUnderDate(lines, Len(lines)))
        /\ \A j \in 1..Len(releases) :
            LET k == NthOf(AcceptedUnderDate(lines, Len(lines)), j)
            IN  /\ releases[j].platform = platform_match(lines[k])
                /\ releases[j].date = LastParsedHeaderDate(lines, k - 1)
                /\ releases[j].title = NormalizeTitle(StripBrackets(Strip(title_match(lines[k]))))
        /\ lines = << <<"M","o","n","d","a","y",","," ","M","a","y"," ","1","s","t",","," ","2","0","2","5">>, <<"A","b"," ","(","N","e","t","f","l","i","x",")">>, <<"S","y","n","o","p","s","i","s",":"," ","x">>, <<"U","P"," ","(","h","u","l","u",")">> >>
            => releases = <<
                [title |-> <<"A","b">>, date |-> <<"2","0","2","5","-","0","5","-","0","1">>, platform |-> <<"N","e","t","f","l","i","x">>,
                 synopsis |-> <<"x">>, type |-> "streaming"],
                [title |-> <<"U","p">>, date |-> <<"2","0","2","5","-","0","5","-","0","1">>, platform |-> <<"H","u","l","u">>,
                 synopsis |-> <<>>, type |-> "streaming"] >>

\* the page of the example has been scanned: two records of one date
C12_Witness ==
    /\ pc = "scanned"
    /\ lines = << <<"M","o","n","d","a","y",","," ","M","a","y"," ","1","s","t",","," ","2","0","2","5">>, <<"A","b"," ","(","N","e","t","f","l","i","x",")">>, <<"S","y","n","o","p","s","i","s",":"," ","x">>, <<"U","P"," ","(","h","u","l","u",")">> >>
    /\ Len(releases) = 2
    /\ releases[1].date = releases[2].date
    /\ releases[1].platform = <<"N","e","t","f","l","i","x">> /\ releases[2].platform = <<"H","u","l","u">>
    /\ releases[1].synopsis = <<"x">> /\ releases[2].synopsis = <<>>

\* C13: the list of records only grows at its end during a pass: whatever line
\* is processed next, every record already emitted stays where it is with its
\* title, date, platform and synopsis.
C13_AppendOnly ==
    [][(pc = "scan" \/ pc = "scanned") =>
        (/\ Len(releases') >= Len(releases)
         /\ \A k \in 1..Len(releases) : releases'[k] = releases[k])]_vars

\* a record was emitted under one date; a header with another date and the
\* synopsis line have been processed since, and the record is as it was emitted
C13_Witness ==
    /\ pc = "scan"
    /\ i = 4
    /\ AcceptedLine(lines[2])
    /\ IsDateHeaderLine(lines[3]) /\ parse_date_header(lines[3]) # None
    /\ parse_date_header(lines[3]) # parse_date_header(lines[1])
    /\ current_date = parse_date_header(lines[3])
    /\ Len(releases) = 1
    /\ releases[1].date = parse_date_header(lines[1])
    /\ releases[1].platform = platform_match(lines[2])

-----------------------------------------------------------------------------
(* Properties of the calendar pass (specification SpecCalendar)             *)

\* the labels the platform table declares
DeclaredLabels == {PLATFORM_PATTERNS[k].label : k \in 1..Len(PLATFORM_PATTERNS)}

\* C11: every record of the streaming output, from the preview scan or from the
\* calendar pass, carries a platform that is a declared label of the platform
\* table and is never empty.
C11_DeclaredPlatform ==
    /\ \A k \in 1..Len(releases) :
        releases[k].platform # <<>> /\ releases[k].platform \in DeclaredLabels
    /\ \A k \in 1..Len(calendar_releases) :
        /\ calendar_releases[k].platform # <<>>
        /\ calendar_releases[k].platform \in DeclaredLabels

\* the number of the month named mo
MonthNumber(mo) == CHOOSE m \in 1..Len(MONTHS) : MONTHS[m] = Lower(mo)

\* the ISO date d lies in the month named mo of the year yr
InMonth(d, mo, yr) == DateValue(d) \div 100 = yr * 100 + MonthNumber(mo)

\* scrape_movie_page is about to return a dated movie
MovieDated ==
    /\ pc = "movie_page"
    /\ movie_line_pos = Len(movie_lines)
    /\ movie_info.date # None

\* C15: every record the calendar pass returns has a date inside the month of
\* the year it was called for; a movie whose date lies outside is discarded, and
\* the loop goes on with the next movie link.
C15_MonthWindow ==
    /\ [](\A k \in 1..Len(calendar_releases) :
            InMonth(calendar_releases[k].date, month, year))
    /\ [][(MovieDated /\ ~InMonth(movie_info.date, month, year)) =>
            /\ calendar_releases' = calendar_releases
            /\ pc' = "movies"
            /\ movie_pos' = movie_pos + 1]_vars

\* the first movie was kept, the second one lies outside the month and was
\* discarded, and the loop is back at its head
C15_Witness ==
    /\ pc = "movies"
    /\ movie_pos = 2
    /\ Len(calendar_releases) = 1
    /\ InMonth(calendar_releases[1].date, month, year)
    /\ movie_info.date # None
    /\ ~InMonth(movie_info.date, month, year)


-----------------------------------------------------------------------------
(* Properties of the theatrical deduplication                               *)

\* two theatrical candidates with the same lowercased title and the same date
SamePair(a, b) == Lower(a.title) = Lower(b.title) /\ a.date = b.date

\* the positions of the candidates that are the first of their pair
FirstOfPair ==
    {k \in 1..Len(theatrical_releases) :
        \A j \in 1..(k - 1) : ~SamePair(theatrical_releases[j], theatrical_releases[k])}

\* candidate j comes before candidate k: an earlier date, or the same date and
\* an earlier position
ComesBefore(j, k) ==
    \/ DateValue(theatrical_releases[j].date) < DateValue(theatrical_releases[k].date)
    \/ /\ theatrical_releases[j].date = theatrical_releases[k].date
       /\ j < k

\* C14: the theatrical result is the first candidate of every (lowercased title,
\* date) pair, platform and all, later candidates of a pair being dropped
\* whatever their platform and one title with two dates giving two records; it
\* is in ascending date order with equal dates in first-seen order.
C14_TheatricalDedup ==
    pc = "theatrical_sorted" =>
        /\ Len(unique_theatrical) = Cardinality(FirstOfPair)
        /\ \A k \in FirstOfPair :
              unique_theatrical[Cardinality({j \in FirstOfPair : ComesBefore(j, k)}) + 1]
                 = theatrical_releases[k]

\* a pair seen twice with two platforms and the same title on an earlier date:
\* the second candidate is dropped, the third is kept and sorts first
C14_Witness ==
    /\ pc = "theatrical_sorted"
    /\ Len(theatrical_releases) = 3
    /\ SamePair(theatrical_releases[1], theatrical_releases[2])
    /\ theatrical_releases[1].platform # theatrical_releases[2].platform
    /\ Lower(theatrical_releases[3].title) = Lower(theatrical_releases[1].title)
    /\ DateValue(theatrical_releases[3].date) < DateValue(theatrical_releases[1].date)
    /\ unique_theatrical = <<theatrical_releases[3], theatrical_releases[1]>>

-----------------------------------------------------------------------------
(* Properties of parse_date_header                                          *)

\* the number of the month a capitalised full name stands for, 0 for any other word
MonthOfName(m) ==
    IF \E k \in 1..Len(MONTHS) : Lower(m) = MONTHS[k]
    THEN CHOOSE k \in 1..Len(MONTHS) : Lower(m) = MONTHS[k]
    ELSE 0

\* "%04d"
Pad4(n) ==
    IF n < 10 THEN <<"0","0","0">> \o DecStr(n)
    ELSE IF n < 100 THEN <<"0","0">> \o DecStr(n)
    ELSE IF n < 1000 THEN <<"0">> \o DecStr(n)
    ELSE DecStr(n)

\* the ISO form YYYY-MM-DD of a calendar date
IsoDate(y, m, d) == Pad4(y) \o <<"-">> \o Pad2(m) \o <<"-">> \o Pad2(d)

\* what C16 expects for the header put together from the five parts
ExpectedHeaderDate(w, m, d, y) ==
    IF /\ \E k \in 1..Len(WEEKDAYS) : w = WEEKDAYS[k]
       /\ MonthOfName(m) # 0
       /\ DigitsValue(d) >= 1
       /\ DigitsValue(d) <= DaysInMonth(DigitsValue(y), MonthOfName(m))
    THEN IsoDate(DigitsValue(y), MonthOfName(m), DigitsValue(d))
    ELSE None

\* C16: a header 'Weekday, Month D(st|nd|rd|th), YYYY' that names an existing
\* calendar date gives that date in ISO form, whatever the ordinal suffix; an
\* invalid weekday name, an invalid month name or a date that does not exist
\* gives None.
C16_HeaderRecognized ==
    pc = "parsed" =>
        \A y \in HeaderYears, w \in HeaderWeekdays, m \in HeaderMonths,
           d \in HeaderDays, x \in HeaderSuffixes :
            text = HeaderText(w, m, d, x, y) =>
                parse_result = ExpectedHeaderDate(w, m, d, y)

\* the same for the headers whose year is 1000 or later
C16_FromYear1000 ==
    pc = "parsed" =>
        \A y \in HeaderYears, w \in HeaderWeekdays, m \in HeaderMonths,
           d \in HeaderDays, x \in HeaderSuffixes :
            (text = HeaderText(w, m, d, x, y) /\ DigitsValue(y) >= 1000) =>
                parse_result = ExpectedHeaderDate(w, m, d, y)

-----------------------------------------------------------------------------
(* Properties of title_to_letterboxd_slug                                   *)

\* the title ends with a group '(YYYY)' that at most whitespace follows
HasYearSuffix(t) ==
    \E k \in 1..(Len(t) - 5) :
        /\ t[k] = "(" /\ t[k + 5] = ")"
        /\ \A j \in (k + 1)..(k + 4) : t[j] \in DigitSet
        /\ \A j \in (k + 6)..Len(t) : t[j] \in {" ", "\t"}

\* how many characters of s are in C
CountIn(s, C) == Cardinality({k \in 1..Len(s) : s[k] \in C})

\* the slug holds no uppercase letter, no whitespace, none of the characters
\* : ' " ! ? , . , no en or em dash and no two hyphens in a row, and it neither
\* starts nor ends with a hyphen
SlugIsClean ==
    /\ \A k \in 1..Len(slug) :
          /\ slug[k] \notin UpperSet
          /\ slug[k] \notin {" ", "\t"}
          /\ slug[k] \notin {":", "'", "\"", "!", "?", ",", "."}
          /\ slug[k] \notin {"ENDASH", "EMDASH"}
          /\ (k < Len(slug) => ~(slug[k] = "-" /\ slug[k + 1] = "-"))
    /\ slug # <<>> => (slug[1] # "-" /\ slug[Len(slug)] # "-")

\* C17 as stated: the slug is clean, the slug of a title that ends with a '(YYYY)'
\* year suffix does not end with one, and 'The Movie: Part Two! (2025)' gives
\* 'the-movie-part-two'.
C17_NoYearSuffix ==
    pc = "slugged" =>
        /\ SlugIsClean
        /\ HasYearSuffix(slug_title) => ~HasYearSuffix(slug)
        /\ slug_title = <<"T","h","e"," ","M","o","v","i","e",":"," ","P","a","r","t"," ","T","w","o","!"," ","(","2","0","2","5",")">> => slug = <<"t","h","e","-","m","o","v","i","e","-","p","a","r","t","-","t","w","o">>

\* C17: the slug is clean; of a title that ends with a '(YYYY)' group (at most
\* whitespace after it) exactly that one group is removed, its two parentheses and
\* four digits, and every other parenthesis and digit stays, as they all do for a
\* title without such an ending; 'The Movie: Part Two! (2025)' gives
\* 'the-movie-part-two' and 'Up (2025) (2025)' gives 'up-(2025)'.
C17_SlugShape ==
    pc = "slugged" =>
        /\ SlugIsClean
        /\ LET cut == IF HasYearSuffix(slug_title) THEN 1 ELSE 0
           IN  /\ CountIn(slug, {"("}) = CountIn(slug_title, {"("}) - cut
               /\ CountIn(slug, {")"}) = CountIn(slug_title, {")"}) - cut
               /\ CountIn(slug, DigitSet) = CountIn(slug_title, DigitSet) - 4 * cut
        /\ slug_title = <<"T","h","e"," ","M","o","v","i","e",":"," ","P","a","r","t"," ","T","w","o","!"," ","(","2","0","2","5",")">> => slug = <<"t","h","e","-","m","o","v","i","e","-","p","a","r","t","-","t","w","o">>
        /\ slug_title = <<"U","p"," ","(","2","0","2","5",")"," ","(","2","0","2","5",")">> => slug = <<"u","p","-","(","2","0","2","5",")">>

\* a title with two year groups at its end has been converted: the first group is
\* still in the slug
C17_Witness ==
    /\ pc = "slugged"
    /\ slug_title = <<"U","p"," ","(","2","0","2","5",")"," ","(","2","0","2","5",")">>
    /\ HasYearSuffix(slug)
    /\ slug = <<"u","p","-","(","2","0","2","5",")">>

-----------------------------------------------------------------------------
(* Properties of get_months_to_scrape                                       *)

\* the lowercase name of month m of the year
MonthName(m) ==
    CASE m = 1 -> <<"j","a","n","u","a","r","y">> [] m = 2 -> <<"f","e","b","r","u","a","r","y">> [] m = 3 -> <<"m","a","r","c","h">>
      [] m = 4 -> <<"a","p","r","i","l">> [] m = 5 -> <<"m","a","y">> [] m = 6 -> <<"j","u","n","e">>
      [] m = 7 -> <<"j","u","l","y">> [] m = 8 -> <<"a","u","g","u","s","t">> [] m = 9 -> <<"s","e","p","t","e","m","b","e","r">>
      [] m = 10 -> <<"o","c","t","o","b","e","r">> [] m = 11 -> <<"n","o","v","e","m","b","e","r">> [] m = 12 -> <<"d","e","c","e","m","b","e","r">>

\* C18: get_months_to_scrape returns two windows, the current month and the
\* month after it: (name(m), y) and (name(m+1), y) for m < 12, (december, y)
\* and (january, y+1) for m = 12.
C18_TwoWindows ==
    pc = "months_done" =>
        months = IF now.month < 12
                 THEN << <<MonthName(now.month), now.year>>,
                         <<MonthName(now.month + 1), now.year>> >>
                 ELSE << <<MonthName(12), now.year>>, <<MonthName(1), now.year + 1>> >>

\* the function has returned for a December
C18_Witness ==
    /\ pc = "months_done"
    /\ now.month = 12
    /\ months = << <<MonthName(12), now.year>>, <<MonthName(1), now.year + 1>> >>

-----------------------------------------------------------------------------
(* Further properties of the streaming deduplication                        *)

\* the positions of the candidates with the lowercased title key
WithKey(key) == {k \in 1..Len(all_releases) : Lower(all_releases[k].title) = key}

\* those of them whose platform is not VOD/Digital
SpecificWithKey(key) == {k \in WithKey(key) : all_releases[k].platform # VOD_Digital}

\* the lowercased titles of a list of records
KeysOf(rs) == {Lower(rs[k].title) : k \in 1..Len(rs)}

\* C19: for a title with a candidate that is not VOD/Digital the reconciled
\* entry is not VOD/Digital and has the greatest date of the title's candidates
\* that are not VOD/Digital, in whatever order they arrive; for a title with
\* VOD/Digital candidates only it is the first candidate.
C19_MaxDateSpecific ==
    pc = "sorted" =>
        \A key \in KeysOf(all_releases) :
            /\ \E a \in 1..Len(unique) : Lower(unique[a].title) = key
            /\ \A a \in 1..Len(unique) :
                  Lower(unique[a].title) = key =>
                     IF SpecificWithKey(key) # {}
                     THEN /\ unique[a].platform # VOD_Digital
                          /\ \A k \in SpecificWithKey(key) :
                                DateValue(all_releases[k].date) <= DateValue(unique[a].date)
                          /\ \E k \in SpecificWithKey(key) :
                                all_releases[k].date = unique[a].date
                     ELSE unique[a] = all_releases[SetMin(WithKey(key))]

\* a VOD/Digital candidate, then a specific one with the later date, then a
\* specific one with the earlier date, all of one title: the second is the result
C19_Witness ==
    /\ pc = "sorted"
    /\ Len(all_releases) = 3
    /\ Cardinality(KeysOf(all_releases)) = 1
    /\ all_releases[1].platform = VOD_Digital
    /\ all_releases[2].platform # VOD_Digital
    /\ all_releases[3].platform # VOD_Digital
    /\ DateValue(all_releases[3].date) < DateValue(all_releases[2].date)
    /\ unique = <<all_releases[2]>>

\* C20: the lowercased titles of the output are those of the input, and every
\* record kept, while the loop runs and in the output, is one of the candidates
\* as it came in.
C20_Conservation ==
    /\ \A k \in 1..Len(seen) : \E c \in 1..pos : seen[k].value = all_releases[c]
    /\ pc = "sorted" =>
          /\ KeysOf(unique) = KeysOf(all_releases)
          /\ \A a \in 1..Len(unique) : \E c \in 1..Len(all_releases) : unique[a] = all_releases[c]

\* two titles, one of them with a VOD/Digital candidate replaced by a later
\* candidate that spells the title in another case
C20_Witness ==
    /\ pc = "sorted"
    /\ Len(all_releases) = 3
    /\ Len(unique) = 2
    /\ \E c, d \in 1..3 :
          /\ c < d
          /\ Lower(all_releases[c].title) = Lower(all_releases[d].title)
          /\ all_releases[c].title # all_releases[d].title
          /\ all_releases[c].platform = VOD_Digital
          /\ \E a \in 1..2 : unique[a] = all_releases[d]
          /\ \A a \in 1..2 : unique[a] # all_releases[c]

-----------------------------------------------------------------------------
(* Properties of the synopsis lookahead                                     *)

\* a line in which a pattern of the platform table is found
PlatformBearing(line) == platform_match(line) # None

\* among the four lines after the platform line at 0-based index k, a
\* platform-bearing line stands before any line that begins with "Synopsis:"
PlatformLineComesFirst(ls, k) ==
    LET last == IF k + 5 < Len(ls) THEN k + 5 ELSE Len(ls)
    IN  \E m \in (k + 2)..last :
            /\ PlatformBearing(ls[m])
            /\ \A h \in (k + 2)..m : ~StartsWith(ls[h], SynopsisPrefix)

\* C21: a "Synopsis:" line gives its text to the nearest platform line before it
\* and to no other record: a record whose platform line is followed by another
\* platform-bearing line before any "Synopsis:" line is emitted with an empty
\* synopsis.
C21_SynopsisAttribution ==
    [][(Emits /\ PlatformLineComesFirst(lines, i)) => Emitted.synopsis = <<>>]_vars

-----------------------------------------------------------------------------
(* The place of a replacing record                                          *)

\* the place of key in the items s
PlaceIn(s, key) == CHOOSE k \in 1..Len(s) : s[k].key = key

\* the step stores the candidate under a title that is already stored
Replaces == AtDuplicate /\ seen' # seen

\* C22: a replacing candidate takes the place its title has had in the
\* insertion order since the title's first occurrence, every other entry
\* staying where it is; so two output records of equal date stand in the order
\* of the first occurrences of their titles, wherever the candidates that won
\* were met.
C22_ReplacementKeepsPlace ==
    /\ [][Replaces =>
            /\ Len(seen') = Len(seen)
            /\ PlaceIn(seen', Lower(Cand.title)) = PlaceIn(seen, Lower(Cand.title))
            /\ seen'[PlaceIn(seen, Lower(Cand.title))].value = Cand
            /\ \A k \in 1..Len(seen) :
                  k # PlaceIn(seen, Lower(Cand.title)) => seen'[k] = seen[k]
            /\ \A k \in 1..Len(seen) :
                  seen[k].key = Lower(all_releases[
                      SetMin({c \in 1..Len(all_releases) :
                                 \A h \in 1..(k - 1) :
                                    seen[h].key # Lower(all_releases[c].title)})].title)]_vars
    /\ [](pc = "sorted" =>
            \A a, b \in 1..Len(unique) :
                (a < b /\ unique[a].date = unique[b].date)
                    => FirstSeen(unique[a]) < FirstSeen(unique[b]))

\* a title met first, another title met second, and a third candidate that
\* replaces the first with the date of the second: the third candidate stands
\* before the second in the output
C22_Witness ==
    /\ pc = "sorted"
    /\ Len(all_releases) = 3
    /\ Lower(all_releases[3].title) = Lower(all_releases[1].title)
    /\ Lower(all_releases[2].title) # Lower(all_releases[1].title)
    /\ all_releases[3].date = all_releases[2].date
    /\ all_releases[3] # all_releases[1]
    /\ unique = <<all_releases[3], all_releases[2]>>
====
